---- MODULE Spec2Model ----
(***************************************************************************)
(* Model of the community detection and retrieval of galaxy_graphrag:     *)
(* HierarchicalLeiden.run_hierarchical_detection, the universal projector  *)
(* it reads its Level-1 graph from, GraphProjector.build_weighted_graph,   *)
(* LeidenDetector.run_leiden, Neo4jManager.execute_batch, the three        *)
(* search strategies of src/retrieval/search.py, run_query and             *)
(* build_pipeline of src/main.py, CommunitySummarizer, and the retry loops *)
(* of EmbeddingService.generate_embedding and get_with_retry.              *)
(*                                                                         *)
(* Strings are sequences of one-character strings, except the type words   *)
(* "Tool" and "Workflow" and the words of a format name, which are kept as *)
(* one token each (none holds a ':').  Cosine similarities and edge        *)
(* weights are integers in hundredths.                                     *)
(***************************************************************************)
EXTENDS Bags, FiniteSets, Integers, Naturals, Sequences, TLC

(***************************************************************************)
(* Bounds of the model.                                                    *)
(***************************************************************************)
\* number of detector runs explored in one behaviour
MaxRuns == 2
\* number of WorkflowStep nodes and tool-format edges in a store
MaxRels == 4
\* largest top_k a search is called with
MaxTopK == 2
\* largest number of records of an execute_batch call
MaxRecords == 5
\* largest batch size of an execute_batch call
MaxBatchSize == 3
\* largest number of loads of the catalog between two runs
MaxLoads == 1

(***************************************************************************)
(* Program constants.                                                      *)
(***************************************************************************)
\* expected_dim = 384
ExpectedDim == 384
\* similarity_threshold = 0.7, in hundredths
SimilarityThreshold == 70
\* execute_batch(query, data, batch_size=1000)
BatchSize == 1000
\* `w * 1.0`, the weight of one co-occurrence, in hundredths
WorkflowWeight == 100
\* `w * 0.5`, the weight of one shared format, in hundredths
IoWeight == 50

(***************************************************************************)
(* The entities the store may hold.  Ids are the strings "a", "a:b", "c".  *)
(***************************************************************************)
ToolIds == { <<"a">> }
WorkflowIds == { <<"a">>, <<"a", ":", "b">>, <<"c">> }

Tool(id) == <<"Tool", id>>
Workflow(id) == <<"Workflow", id>>
Entities == { Tool(i) : i \in ToolIds } \cup { Workflow(i) : i \in WorkflowIds }

\* the tools of the stores the tool projector is run on
ProjectorToolIds == { <<"a">>, <<"b">>, <<"c">> }
\* of these, the tools that are used by workflow steps and have file formats
LinkedToolIds == { <<"a">>, <<"b">> }
\* the workflows that have steps
StepWorkflowIds == { <<"a">>, <<"c">> }
\* the FileFormat names "fastq" and "fastqsanger"
FormatNames == { <<"fastq">>, <<"fastq", "sanger">> }
\* the FileFormat names of the stores the searches are run on, in the order
\* the store returns them
FormatOrder == << <<"bam">>, <<"fastq">>, <<"fastq", "sanger">> >>

\* the order in which the catalog files list the nodes of the stores the
\* flat detector, the searches and the pipeline are run on
CatalogOrder ==
  << Tool(<<"a">>), Tool(<<"b">>), Tool(<<"c">>),
     Workflow(<<"a">>), Workflow(<<"a", ":", "b">>), Workflow(<<"c">>),
     Workflow(<<"d">>) >>

\* the embedding lengths a node may hold: a wrong one (128) and the valid one
EmbDims == { 128, ExpectedDim }
\* the cosine similarities a pair may have: exactly the threshold, and 0.9
SimValues == { SimilarityThreshold, 90 }

(***************************************************************************)
(* Generic helpers.                                                        *)
(***************************************************************************)
Range(s) == { s[i] : i \in DOMAIN s }

RECURSIVE SelectOrder(_, _)
\* the subsequence of s whose elements are in set S, in the order of s
SelectOrder(s, S) ==
  IF s = <<>> THEN <<>>
  ELSE IF Head(s) \in S THEN <<Head(s)>> \o SelectOrder(Tail(s), S)
       ELSE SelectOrder(Tail(s), S)

RECURSIVE IndexOf(_, _)
\* position of the first x in s, Len(s) + 1 when there is none
IndexOf(s, x) ==
  IF s = <<>> THEN 1
  ELSE IF Head(s) = x THEN 1 ELSE 1 + IndexOf(Tail(s), x)

Pairs(S) == { p \in SUBSET S : Cardinality(p) = 2 }

\* the orders of the elements of S
Perms(S) == { r \in [1 .. Cardinality(S) -> S] : Range(r) = S }

\* the function with no argument
NoProps == [e \in {} |-> 0]

\* f with f[k] set to v
Put(f, k, v) == [x \in (DOMAIN f) \cup {k} |-> IF x = k THEN v ELSE f[x]]

(***************************************************************************)
(* Node keys: f"Tool:{id}", f"Workflow:{id}", and the two ways the         *)
(* detector parses them back.                                              *)
(***************************************************************************)
\* f"{type}:{id}"
MakeKey(type, id) == <<type, ":">> \o id

KeyOf(e) == MakeKey(e[1], e[2])

\* key.split(":", 1): <<text before the first ':', text after it>>
SplitOnce(key) ==
  LET i == IndexOf(key, ":")
  IN  IF i > Len(key) THEN << key >>
      ELSE << SubSeq(key, 1, i - 1), SubSeq(key, i + 1, Len(key)) >>

RECURSIVE SplitAll(_)
\* key.split(":"): all the segments between ':' characters
SplitAll(key) ==
  LET i == IndexOf(key, ":")
  IN  IF i > Len(key) THEN << key >>
      ELSE << SubSeq(key, 1, i - 1) >> \o SplitAll(SubSeq(key, i + 1, Len(key)))

\* type_prefix, real_id = node_key.split(":", 1)
ParseGrouping(key) ==
  LET parts == SplitOnce(key)
  IN  [type_prefix |-> parts[1][1], real_id |-> parts[2]]

\* wid = key.split(":")[1]
ParseWorkflowKey(key) == SplitAll(key)[2]

(***************************************************************************)
(* Sub-community ids: f"{comm_id}_T_{sub_id}" and f"{comm_id}_W_{sub_id}". *)
(***************************************************************************)
DigitChar(d) ==
  CASE d = 0 -> "0" [] d = 1 -> "1" [] d = 2 -> "2" [] d = 3 -> "3"
    [] d = 4 -> "4" [] d = 5 -> "5" [] d = 6 -> "6" [] d = 7 -> "7"
    [] d = 8 -> "8" [] d = 9 -> "9"

RECURSIVE IntStr(_)
\* str(n) for a natural number n
IntStr(n) ==
  IF n < 10 THEN << DigitChar(n) >>
  ELSE IntStr(n \div 10) \o << DigitChar(n % 10) >>

\* variant: the parent community id is left out of the id
SubId_NoParent(comm_id, tag, sub_id) ==
  <<tag, "_">> \o IntStr(sub_id)

SubId(comm_id, tag, sub_id) ==
  IntStr(comm_id) \o <<"_", tag, "_">> \o IntStr(sub_id)

\* the text of a sub-community id up to its first '_'
SubIdPrefix(sid) == SubSeq(sid, 1, IndexOf(sid, "_") - 1)

(***************************************************************************)
(* In-memory graphs (networkx.Graph): nodes in insertion order, edges as   *)
(* two-element sets of nodes, weight the 'weight' attribute of each edge.  *)
(***************************************************************************)
EmptyGraph == [nodes |-> <<>>, edges |-> {}, weight |-> <<>>]

\* nx_graph.number_of_nodes()
number_of_nodes(G) == Len(G.nodes)

\* G.subgraph(keys): the induced subgraph, in the node order of G
subgraph(G, keys) ==
  LET kept == { e \in G.edges : e \subseteq (Range(keys) \cap Range(G.nodes)) }
  IN  [nodes  |-> SelectOrder(G.nodes, Range(keys)),
       edges  |-> kept,
       weight |-> [e \in kept |-> G.weight[e]]]

\* the nodes of one label among S, in the order the store returns them
Matched(st, label, S) == SelectOrder(st.order, { e \in S : e[1] = label })

\* the entities whose embedding is not null: the rows of query_tools, then
\* the rows of query_workflows
FetchedEntities(st) ==
  Matched(st, "Tool", DOMAIN st.emb) \o Matched(st, "Workflow", DOMAIN st.emb)

\* fetch_all_embeddings: the keyed entities with an embedding
fetch_all_embeddings(st) == FetchedEntities(st)

\* the entities that pass `len(emb) == expected_dim`
ValidEntities(st) == { e \in DOMAIN st.emb : st.emb[e] = ExpectedDim }

\* cosine similarity of two entities with valid embeddings, in hundredths
Cosine(st, e1, e2) == st.cos[{e1, e2}]

\* variant: the pairs at the threshold are taken as well
UpperPairs_AtThreshold(st, valid) ==
  { p \in (DOMAIN valid) \X (DOMAIN valid) :
      /\ p[1] < p[2]
      /\ Cosine(st, valid[p[1]], valid[p[2]]) >= SimilarityThreshold }

\* the pairs (r, c) of `np.where(sim_matrix > threshold)` with r < c
UpperPairs(st, valid) ==
  { p \in (DOMAIN valid) \X (DOMAIN valid) :
      /\ p[1] < p[2]
      /\ Cosine(st, valid[p[1]], valid[p[2]]) > SimilarityThreshold }

\* the graph after the similarity loop: node i is names[i], the name of
\* valid[i], and every pair of UpperPairs is an edge that carries the
\* similarity as its weight
SemanticGraph(st, valid, names) ==
  LET pairs == UpperPairs(st, valid)
      E     == { {names[p[1]], names[p[2]]} : p \in pairs }
  IN  [nodes  |-> names,
       edges  |-> E,
       weight |-> [e \in E |->
                     LET p == CHOOSE q \in pairs : e = {names[q[1]], names[q[2]]}
                     IN  Cosine(st, valid[p[1]], valid[p[2]])]]

\* the keys of a sequence of nodes
KeysOf(es) == [i \in DOMAIN es |-> KeyOf(es[i])]

\* valid_keys of build_universal_graph: the fetched keys whose embedding has
\* the expected length, in fetch order
valid_keys(st) == SelectOrder(fetch_all_embeddings(st), ValidEntities(st))

\* variant: every fetched key becomes a node, whatever the length of its
\* embedding
build_universal_graph_NoFilter(st) ==
  LET S   == SemanticGraph(st, valid_keys(st), KeysOf(valid_keys(st)))
      all == fetch_all_embeddings(st)
  IN  [nodes |-> [i \in DOMAIN all |-> KeyOf(all[i])],
       edges |-> S.edges, weight |-> S.weight]

\* UniversalGraphProjector.build_universal_graph
build_universal_graph(st) ==
  LET valid == valid_keys(st)
  IN  IF valid = <<>> THEN EmptyGraph
      ELSE SemanticGraph(st, valid, KeysOf(valid))

\* the parameters `def build_weighted_graph(self)` accepts besides self
build_weighted_graph_params == {}

\* a Python call binds its keyword arguments only to declared parameters;
\* any other keyword raises TypeError
CallAccepted(kwargs, params) == kwargs \subseteq params

(***************************************************************************)
(* GraphProjector: the three fetch queries and build_weighted_graph.  A    *)
(* store holds its WorkflowStep nodes as the bag `steps` of (workflow id,  *)
(* tool id) pairs, one copy for each step of that workflow that uses that  *)
(* tool, and the ACCEPTS_INPUT and PRODUCES_OUTPUT edges as sets of (tool  *)
(* id, format name) pairs.                                                 *)
(***************************************************************************)
\* the characters of the ids, in the order of string comparison
Alphabet == << ":", "a", "b", "c" >>

RECURSIVE StrLess(_, _)
\* x < y on two strings
StrLess(x, y) ==
  IF y = <<>> THEN FALSE
  ELSE IF x = <<>> THEN TRUE
       ELSE IF Head(x) = Head(y) THEN StrLess(Tail(x), Tail(y))
            ELSE IndexOf(Alphabet, Head(x)) < IndexOf(Alphabet, Head(y))

RECURSIVE SumSeq(_)
SumSeq(s) == IF s = <<>> THEN 0 ELSE Head(s) + SumSeq(Tail(s))

\* the pairs of elements of s, row by row
OrderedPairs(s) ==
  LET n == Len(s)
  IN  [k \in 1 .. (n * n) |-> << s[((k - 1) \div n) + 1], s[((k - 1) % n) + 1] >>]

\* the ids of the Tool nodes of the store, in store order
ToolIdsOf(st) ==
  LET ts == Matched(st, "Tool", DOMAIN st.emb)
  IN  [i \in DOMAIN ts |-> ts[i][2]]

\* the ids of the workflows that have a step, in store order
StepWorkflowsOf(st) ==
  LET ws == Matched(st, "Workflow", { Workflow(x[1]) : x \in BagToSet(st.steps) })
  IN  [i \in DOMAIN ws |-> ws[i][2]]

\* fetch_tool_embeddings: the tools whose embedding is not null
fetch_tool_embeddings(st) == Matched(st, "Tool", DOMAIN st.emb)

\* count(w) of the row (t1, t2): one for every match of the two patterns,
\* that is for every workflow w, step s1 of w using t1 and step s2 of w
\* using t2
CooccurrenceCount(st, t1, t2) ==
  LET ws == StepWorkflowsOf(st)
  IN  SumSeq([i \in DOMAIN ws |->
                CopiesIn(<<ws[i], t1>>, st.steps) * CopiesIn(<<ws[i], t2>>, st.steps)])

\* fetch_workflow_cooccurrences: a row for every (t1, t2) with t1.id < t2.id
\* that has a match
fetch_workflow_cooccurrences(st) ==
  LET ps == OrderedPairs(ToolIdsOf(st))
      rs == [k \in DOMAIN ps |->
               [source |-> ps[k][1], target |-> ps[k][2],
                weight |-> CooccurrenceCount(st, ps[k][1], ps[k][2])]]
  IN  SelectSeq(rs, LAMBDA r : StrLess(r.source, r.target) /\ r.weight > 0)

\* count(f) of the row (t1, t2): the formats t1 produces and t2 accepts
SharedFormats(st, t1, t2) ==
  { f \in FormatNames : <<t1, f>> \in st.PRODUCES_OUTPUT /\ <<t2, f>> \in st.ACCEPTS_INPUT }

\* variant: a row only for the pairs with t1.id < t2.id
fetch_io_connections_OneDirection(st) ==
  LET ps == OrderedPairs(ToolIdsOf(st))
      rs == [k \in DOMAIN ps |->
               [source |-> ps[k][1], target |-> ps[k][2],
                weight |-> Cardinality(SharedFormats(st, ps[k][1], ps[k][2]))]]
  IN  SelectSeq(rs, LAMBDA r : StrLess(r.source, r.target) /\ r.weight > 0)

\* fetch_io_connections: a row for every (t1, t2) with t1.id <> t2.id that
\* has a match
fetch_io_connections(st) ==
  LET ps == OrderedPairs(ToolIdsOf(st))
      rs == [k \in DOMAIN ps |->
               [source |-> ps[k][1], target |-> ps[k][2],
                weight |-> Cardinality(SharedFormats(st, ps[k][1], ps[k][2]))]]
  IN  SelectSeq(rs, LAMBDA r : r.source # r.target /\ r.weight > 0)

\* nx.Graph() with the edge attributes 'weight' and 'type'
EmptyWeightedGraph == [nodes |-> <<>>, edges |-> {}, weight |-> <<>>, type |-> <<>>]

\* G.add_edge(u, v, weight=w, type=ty): the edge, and the nodes u and v when
\* the graph does not have them
add_edge(G, u, v, w, ty) ==
  LET n1 == IF u \in Range(G.nodes) THEN G.nodes ELSE Append(G.nodes, u)
      n2 == IF v \in Range(n1) THEN n1 ELSE Append(n1, v)
  IN  [nodes  |-> n2,
       edges  |-> G.edges \cup { {u, v} },
       weight |-> Put(G.weight, {u, v}, w),
       type   |-> Put(G.type, {u, v}, ty)]

\* variant: the row's weight replaces the weight of an edge that exists
MergeRow_Overwrites(G, row, unit, ty) ==
  add_edge(G, row.source, row.target, row.weight * unit,
           IF {row.source, row.target} \in G.edges
           THEN G.type[{row.source, row.target}] ELSE ty)

\* the body of the two row loops:
\*   if G.has_edge(u, v): G[u][v]['weight'] += w * unit
\*   else: G.add_edge(u, v, weight=w * unit, type=ty)
MergeRow(G, row, unit, ty) ==
  LET e == {row.source, row.target}
  IN  IF e \in G.edges
      THEN [G EXCEPT !.weight[e] = @ + row.weight * unit]
      ELSE add_edge(G, row.source, row.target, row.weight * unit, ty)

RECURSIVE MergeRows(_, _, _, _)
\* `for row in rows:` over the rows of one fetch
MergeRows(G, rows, unit, ty) ==
  IF rows = <<>> THEN G
  ELSE MergeRows(MergeRow(G, Head(rows), unit, ty), Tail(rows), unit, ty)

\* the id of a Tool or Workflow node
IdOf(e) == e[2]

\* variant: the first fetched tool is left out
valid_tool_ids_DropsFirst(st) ==
  IF fetch_tool_embeddings(st) = <<>> THEN <<>>
  ELSE SelectOrder(Tail(fetch_tool_embeddings(st)), ValidEntities(st))

\* valid_tool_ids of build_weighted_graph: the fetched tools whose embedding
\* has the expected length, in fetch order
valid_tool_ids(st) == SelectOrder(fetch_tool_embeddings(st), ValidEntities(st))

\* the graph after `G.add_nodes_from(tool_ids)` and the similarity loop
semantic_pass(st) ==
  LET S == SemanticGraph(st, valid_tool_ids(st),
                         [i \in DOMAIN valid_tool_ids(st) |-> IdOf(valid_tool_ids(st)[i])])
  IN  [nodes |-> S.nodes, edges |-> S.edges, weight |-> S.weight,
       type  |-> [e \in S.edges |-> "semantic"]]

\* variant: the row loops run also when no tool passed the dimension filter
build_weighted_graph_NoEarlyReturn(st) ==
  MergeRows(MergeRows(semantic_pass(st),
                      fetch_workflow_cooccurrences(st), WorkflowWeight, "workflow"),
            fetch_io_connections(st), IoWeight, "io")

\* the fetches build_weighted_graph sends to the store, in order
projector_queries(st) ==
  IF valid_tool_ids(st) = <<>> THEN << "fetch_tool_embeddings" >>
  ELSE << "fetch_tool_embeddings", "fetch_workflow_cooccurrences",
          "fetch_io_connections" >>

\* GraphProjector.build_weighted_graph
build_weighted_graph(st) ==
  IF valid_tool_ids(st) = <<>> THEN EmptyWeightedGraph
  ELSE MergeRows(MergeRows(semantic_pass(st),
                           fetch_workflow_cooccurrences(st), WorkflowWeight, "workflow"),
                 fetch_io_connections(st), IoWeight, "io")

(***************************************************************************)
(* leidenalg.find_partition.  The library is a stochastic heuristic; the   *)
(* model admits every partition it can return: the blocks cover the nodes, *)
(* every block is connected in the graph (the guarantee of the Leiden      *)
(* algorithm), and blocks are numbered from 0 by non-increasing size.      *)
(***************************************************************************)
RECURSIVE Reach(_, _, _)
\* the nodes of B reachable from the set R along edges inside B
Reach(R, B, edges) ==
  LET nxt == R \cup { n \in B : \E m \in R : {m, n} \in edges }
  IN  IF nxt = R THEN R ELSE Reach(nxt, B, edges)

Connected(B, edges) ==
  B # {} /\ Reach({CHOOSE n \in B : TRUE}, B, edges) = B

Block(f, c) == { n \in DOMAIN f : f[n] = c }

find_partition(G) ==
  LET N == Range(G.nodes)
      K == Cardinality(N)
  IN  { f \in [N -> 0 .. (K - 1)] :
          /\ \A c \in 0 .. (K - 1) :
               \/ Block(f, c) = {}
               \/ Connected(Block(f, c), G.edges)
          /\ \A c \in 1 .. (K - 1) :
               Cardinality(Block(f, c)) <= Cardinality(Block(f, c - 1)) }

RECURSIVE ItemsFrom(_, _, _, _)
\* the (node, comm_id) items of `results`, in insertion order: blocks in
\* increasing comm_id, the nodes of a block in graph order
ItemsFrom(f, nodes, c, k) ==
  IF c >= k THEN <<>>
  ELSE LET blk == SelectOrder(nodes, Block(f, c))
       IN  [i \in DOMAIN blk |-> <<blk[i], c>>] \o ItemsFrom(f, nodes, c + 1, k)

\* HierarchicalLeiden._run_leiden_on_graph: the set of results the call may
\* return, each an ordered sequence of (original_id, comm_id) items
run_leiden_on_graph(G) ==
  IF number_of_nodes(G) = 0 THEN { <<>> }
  ELSE { ItemsFrom(f, G.nodes, 0, Len(G.nodes)) : f \in find_partition(G) }

(***************************************************************************)
(* The graph store.  order lists the Tool and Workflow nodes in the order   *)
(* in which a MATCH returns them: the order of their creation (Cypher      *)
(* itself promises none), kept here with the tools before the workflows,   *)
(* since every query matches one label.  emb maps every Tool/Workflow node *)
(* that has an embedding to the                                            *)
(* length of its embedding; cos gives the cosine similarity of two nodes   *)
(* with valid embeddings; communityId and subCommunityId are the node      *)
(* properties the detector writes; Community and SubCommunity are bags of  *)
(* node ids and IN_COMMUNITY, IN_SUBCOMMUNITY, BELONGS_TO bags of edges.   *)
(* unnamed holds the Tool and Workflow nodes whose name is null and         *)
(* undescribed the Tool nodes whose description is null: the loaders SET    *)
(* t.name = row.name and t.description = row.description, which is null for *)
(* a row of the catalog file without that key.  A node with a name has its  *)
(* id for name.                                                            *)
(***************************************************************************)
\* variant: Cypher CREATE, which adds a node or edge whether one exists or not
Merge_AsCreate(bag, x) == bag (+) SetToBag({x})

\* Cypher MERGE: create the node or edge only when none matches
Merge(bag, x) == IF BagIn(x, bag) THEN bag ELSE bag (+) SetToBag({x})

\* variant: MATCH (n) WHERE n:Community OR n:Topic  DETACH DELETE n
cleanup_query_KeepsSubCommunities(st) ==
  [st EXCEPT !.Community = EmptyBag, !.IN_COMMUNITY = EmptyBag,
             !.BELONGS_TO = EmptyBag, !.summary = NoProps]

\* MATCH (n) WHERE n:Community OR n:SubCommunity OR n:Topic  DETACH DELETE n
cleanup_query(st) ==
  [st EXCEPT !.Community = EmptyBag, !.SubCommunity = EmptyBag,
             !.IN_COMMUNITY = EmptyBag, !.IN_SUBCOMMUNITY = EmptyBag,
             !.BELONGS_TO = EmptyBag, !.summary = NoProps]

\* variant: REMOVE n.subCommunityId, n.topicId, leaving communityId
cleanup_props_KeepsCommunityId(st) ==
  [st EXCEPT !.subCommunityId = NoProps]

\* MATCH (n) WHERE n:Tool OR n:Workflow
\* REMOVE n.communityId, n.subCommunityId, n.topicId
cleanup_props(st) ==
  [st EXCEPT !.communityId = NoProps, !.subCommunityId = NoProps]

\* one row of query_tool / query_wf: MATCH the node of that label and id,
\* SET its two properties, MERGE the two community nodes and three edges
ApplyRow(st, row, label) ==
  LET n == <<label, row.id>>
  IN  IF n \notin DOMAIN st.emb THEN st
      ELSE [st EXCEPT
              !.communityId     = Put(@, n, row.comm_id),
              !.subCommunityId  = Put(@, n, row.sub_id),
              !.Community       = Merge(@, row.comm_id),
              !.SubCommunity    = Merge(@, row.sub_id),
              !.IN_COMMUNITY    = Merge(@, <<n, row.comm_id>>),
              !.IN_SUBCOMMUNITY = Merge(@, <<n, row.sub_id>>),
              !.BELONGS_TO      = Merge(@, <<row.sub_id, row.comm_id>>)]

RECURSIVE ApplyBatch(_, _, _)
\* UNWIND $batch AS row ...: the rows of one session.run, in order
ApplyBatch(st, batch, label) ==
  IF batch = <<>> THEN st
  ELSE ApplyBatch(ApplyRow(st, Head(batch), label), Tail(batch), label)

\* the nodes a batch writes to
Touched(st, batch, label) ==
  { <<label, batch[i].id>> : i \in DOMAIN batch } \cap DOMAIN st.emb

\* batch = data[i : i + batch_size]
BatchAt(data, i) ==
  SubSeq(data, i + 1, IF i + BatchSize < Len(data) THEN i + BatchSize ELSE Len(data))

\* [r for r in all_updates if r['type'] == t]
RowsOfType(rows, t) == SelectSeq(rows, LAMBDA r : r.type = t)

(***************************************************************************)
(* State.                                                                  *)
(***************************************************************************)
VARIABLES
  store,           \* the graph store
  pc,              \* the stage run_hierarchical_detection is in
  err,             \* the exception that ended the last run, "" for none
  univ_graph,      \* Level-1 graph
  comm_partition,  \* Level-1 result: ordered (node_key, comm_id) items
  gi,              \* number of items the grouping loop has consumed
  communities,     \* ordered dict: entries [comm_id, tools, workflows]
  ci,              \* number of communities the Level-2 loop has finished
  all_updates,     \* rows collected for persistence
  tools_batch,     \* rows of type Tool
  wf_batch,        \* rows of type Workflow
  wi,              \* offset i of the execute_batch loop in progress
  runs,            \* number of runs started
  l2_log,          \* history: the Level-2 results of this run, in order
  applied,         \* history: rows sent to the store by this run
  prior,           \* history: what is left in the store from before this run
  last,            \* history: how the preceding run ended
  loads,           \* history: the loads of the catalog since the last run ended
  nx_graph,        \* the graph LeidenDetector.run_leiden built
  finished,        \* the projector and detector calls that have returned
  request,         \* the retrieval call made
  response,        \* what the retrieval call returned
  calls,           \* the collaborator calls the last operation issued
  stage,           \* the stage build_pipeline has reached
  events,          \* what build_pipeline constructed, ran, closed and printed
  summarization    \* the lists run_summarization fetched and made, what the
                   \* model did for each item, and which lists it wrote

vars == << store, pc, err, univ_graph, comm_partition, gi, communities, ci,
           all_updates, tools_batch, wf_batch, wi, runs, l2_log,
           applied, prior, last, loads,
           nx_graph, finished, request, response, calls,
           stage, events, summarization >>

\* the state of the build pipeline and of the summarizer
pipeline == << stage, events, summarization >>

\* the state of the flat detector, the projectors, the retrieval engine and
\* the build pipeline
others == << nx_graph, finished, request, response, calls, pipeline >>

locals == << univ_graph, comm_partition, gi, communities, ci, all_updates,
             tools_batch, wf_batch, wi, l2_log >>

NoPrior == [communityId |-> {}, subCommunityId |-> {},
            Community |-> {}, SubCommunity |-> {}]

\* what of `prior` is still in the store st after nodes W were rewritten
Survive(pr, st, W) ==
  [communityId    |-> (pr.communityId \cap DOMAIN st.communityId) \ W,
   subCommunityId |-> (pr.subCommunityId \cap DOMAIN st.subCommunityId) \ W,
   Community      |-> pr.Community \cap BagToSet(st.Community),
   SubCommunity   |-> pr.SubCommunity \cap BagToSet(st.SubCommunity)]

\* what the detector owns in the store: properties, community nodes, edges
CommunityPart(st) ==
  [communityId |-> st.communityId, subCommunityId |-> st.subCommunityId,
   Community |-> st.Community, SubCommunity |-> st.SubCommunity,
   IN_COMMUNITY |-> st.IN_COMMUNITY, IN_SUBCOMMUNITY |-> st.IN_SUBCOMMUNITY,
   BELONGS_TO |-> st.BELONGS_TO]

NoCommunityPart ==
  [communityId |-> NoProps, subCommunityId |-> NoProps,
   Community |-> EmptyBag, SubCommunity |-> EmptyBag,
   IN_COMMUNITY |-> EmptyBag, IN_SUBCOMMUNITY |-> EmptyBag,
   BELONGS_TO |-> EmptyBag]

\* the record kept of the run that ended in stage p with exception e, after
\* handing s rows to execute_batch of which a were sent, when the catalog
\* was (d) or was not loaded again after it ended; the result itself is kept
\* only of a completed run with no load after it
RunRecord(p, e, d, a, s, st, l1, l2) ==
  LET keep == p = "done" /\ ~d
  IN  [valid |-> p = "done", err |-> e, dirty |-> d, wrote |-> a > 0,
       persisting |-> s > 0,
       had   |-> st.communityId # NoProps,
       part  |-> IF keep THEN CommunityPart(st) ELSE NoCommunityPart,
       l1    |-> IF keep THEN l1 ELSE <<>>,
       l2    |-> IF keep THEN l2 ELSE <<>>]

\* a store right after the graph build: nodes and embeddings, no community
DataStore(e, c) ==
  [order |-> SelectOrder(CatalogOrder, DOMAIN e),
   emb |-> e, cos |-> c, communityId |-> NoProps, subCommunityId |-> NoProps,
   Community |-> EmptyBag, SubCommunity |-> EmptyBag, IN_COMMUNITY |-> EmptyBag,
   IN_SUBCOMMUNITY |-> EmptyBag, BELONGS_TO |-> EmptyBag,
   steps |-> EmptyBag, ACCEPTS_INPUT |-> {}, PRODUCES_OUTPUT |-> {},
   rank |-> <<>>, summary |-> NoProps, unnamed |-> {}, undescribed |-> {}]

\* no retrieval call was made
NoRequest == [mode |-> "none", input_format |-> <<>>, top_k |-> 0, embedding |-> "none"]

NoResponse == [kind |-> "none"]

\* run_summarization was not called
NoSummarization ==
  [communities |-> <<>>, comm_updates |-> <<>>,
   subcommunities |-> <<>>, sub_updates |-> <<>>, answers |-> <<>>,
   written |-> {}]

EmbMaps == UNION { [S -> EmbDims] : S \in SUBSET Entities }

CosMaps(e) == [Pairs({ n \in DOMAIN e : e[n] = ExpectedDim }) -> SimValues]

\* the orders in which a store may return the nodes S: the tools in any
\* order of creation, and so the workflows
Orders(S) ==
  { t \o w : t \in Perms({ n \in S : n[1] = "Tool" }),
             w \in Perms({ n \in S : n[1] = "Workflow" }) }

\* a store right after the graph build whose nodes were created in order o
OrderedStore(e, c, o) == [DataStore(e, c) EXCEPT !.order = o]

(***************************************************************************)
(* Initial state: a built graph, no detector run yet.                      *)
(***************************************************************************)
Init ==
  /\ \E e \in EmbMaps : \E c \in CosMaps(e) : \E o \in Orders(DOMAIN e) :
       store = OrderedStore(e, c, o)
  /\ pc = "idle"
  /\ err = ""
  /\ univ_graph = EmptyGraph
  /\ comm_partition = <<>>
  /\ gi = 0
  /\ communities = <<>>
  /\ ci = 0
  /\ all_updates = <<>>
  /\ tools_batch = <<>>
  /\ wf_batch = <<>>
  /\ wi = 0
  /\ runs = 0
  /\ l2_log = <<>>
  /\ applied = 0
  /\ prior = NoPrior
  /\ last = RunRecord("idle", "", FALSE, 0, 0, store, <<>>, <<>>)
  /\ loads = 0
  /\ nx_graph = EmptyWeightedGraph
  /\ finished = {}
  /\ request = NoRequest
  /\ response = NoResponse
  /\ calls = <<>>
  /\ stage = "idle"
  /\ events = <<>>
  /\ summarization = NoSummarization

Resting == pc \in {"idle", "done", "raised", "closed"}

\* how the last run ended
Ended == IF pc # "closed" THEN pc ELSE IF err = "" THEN "done" ELSE "raised"

(***************************************************************************)
(* The store's tool/workflow data is edited between runs by                *)
(* GraphBuilder.load_tools and GraphBuilder.load_workflows.  A load reads  *)
(* a file of rows, asks generate_embedding for a vector per row and sends  *)
(* the rows to the store in one execute_batch call: MERGE the node of the  *)
(* row's id, SET its embedding.  The files here have at most BatchSize     *)
(* rows, and their rows name no category, format or step, so that the      *)
(* later store calls of a load write nothing.  The loader runs when the    *)
(* detector has been closed.  A node that is reloaded                      *)
(* keeps its place in the store, its communityId and its subCommunityId;   *)
(* a new node is created after the nodes of its label.  The similarities   *)
(* of a vector that was written anew are whatever the new vector gives;    *)
(* those between two nodes that were not reloaded stay.                    *)
(***************************************************************************)
\* the nodes of one label
NodesOf(label) == { n \in Entities : n[1] = label }

\* the files of rows for nodes of one label: each row an id and the length
\* of the vector generate_embedding returned for it
Files(label) ==
  UNION { [S -> EmbDims] : S \in (SUBSET NodesOf(label)) \ {{}} }

\* the stores a load of the rows f of nodes of one label may leave
Loaded(st, label, f) ==
  LET e    == [n \in (DOMAIN st.emb) \cup (DOMAIN f) |->
                 IF n \in DOMAIN f THEN f[n] ELSE st.emb[n]]
      new  == (DOMAIN f) \ Range(st.order)
      cs   == { c \in CosMaps(e) :
                  \A p \in DOMAIN c :
                    p \cap (DOMAIN f) = {} => c[p] = st.cos[p] }
      os   == IF label = "Tool"
              THEN { Matched(st, "Tool", Range(st.order)) \o r
                       \o Matched(st, "Workflow", Range(st.order)) :
                     r \in Perms(new) }
              ELSE { st.order \o r : r \in Perms(new) }
  IN  { [st EXCEPT !.emb = e, !.cos = c, !.order = o] : c \in cs, o \in os }

\* GraphBuilder.load_tools(tools_file)
load_tools ==
  /\ pc = "closed"
  /\ loads < MaxLoads
  /\ runs < MaxRuns
  /\ \E f \in Files("Tool") : store' \in Loaded(store, "Tool", f)
  /\ loads' = loads + 1
  /\ UNCHANGED << pc, err, locals, runs, applied, prior, last >>
  /\ UNCHANGED others

\* GraphBuilder.load_workflows(workflows_file, steps_file)
load_workflows ==
  /\ pc = "closed"
  /\ loads < MaxLoads
  /\ runs < MaxRuns
  /\ \E f \in Files("Workflow") : store' \in Loaded(store, "Workflow", f)
  /\ loads' = loads + 1
  /\ UNCHANGED << pc, err, locals, runs, applied, prior, last >>
  /\ UNCHANGED others

(***************************************************************************)
(* run_hierarchical_detection, stage by stage.                             *)
(***************************************************************************)
\* detector.close() in the `finally` of the entry point: the run has
\* returned or raised, and its frame is gone
close ==
  /\ pc \in {"done", "raised"}
  /\ pc' = "closed"
  /\ univ_graph' = EmptyGraph
  /\ comm_partition' = <<>>
  /\ gi' = 0
  /\ communities' = <<>>
  /\ ci' = 0
  /\ all_updates' = <<>>
  /\ tools_batch' = <<>>
  /\ wf_batch' = <<>>
  /\ wi' = 0
  /\ l2_log' = <<>>
  /\ UNCHANGED << store, err, runs, applied, prior, last, loads >>
  /\ UNCHANGED others

\* entry of run_hierarchical_detection
StartRun ==
  /\ Resting
  /\ runs < MaxRuns
  /\ runs' = runs + 1
  /\ pc' = "cleanup_nodes"
  /\ err' = ""
  /\ univ_graph' = EmptyGraph
  /\ comm_partition' = <<>>
  /\ gi' = 0
  /\ communities' = <<>>
  /\ ci' = 0
  /\ all_updates' = <<>>
  /\ tools_batch' = <<>>
  /\ wf_batch' = <<>>
  /\ wi' = 0
  /\ l2_log' = <<>>
  /\ applied' = 0
  /\ prior' = [communityId    |-> DOMAIN store.communityId,
               subCommunityId |-> DOMAIN store.subCommunityId,
               Community      |-> BagToSet(store.Community),
               SubCommunity   |-> BagToSet(store.SubCommunity)]
  /\ last' = RunRecord(Ended, err, loads > 0, applied,
                       Len(tools_batch) + Len(wf_batch), store,
                       comm_partition, l2_log)
  /\ loads' = 0
  /\ UNCHANGED store
  /\ UNCHANGED others

\* Neo4jManager.execute_query has no try/except: when session.run raises,
\* the query has written nothing and the exception leaves the function that
\* called execute_query, and run_hierarchical_detection with it
QueryRaises ==
  /\ pc' = "raised"
  /\ err' = "StoreError"
  /\ UNCHANGED << store, locals, runs, applied, prior, last, loads >>

\* self.neo4j.execute_query(cleanup_query)
CleanupNodes ==
  /\ pc = "cleanup_nodes"
  /\ \/ /\ store' = cleanup_query(store)
        /\ prior' = Survive(prior, store', {})
        /\ pc' = "cleanup_props"
        /\ UNCHANGED << err, locals, runs, applied, last, loads >>
     \/ QueryRaises
  /\ UNCHANGED others

\* self.neo4j.execute_query(cleanup_props)
CleanupProps ==
  /\ pc = "cleanup_props"
  /\ \/ /\ store' = cleanup_props(store)
        /\ prior' = Survive(prior, store', {})
        /\ pc' = "build_l1"
        /\ UNCHANGED << err, locals, runs, applied, last, loads >>
     \/ QueryRaises
  /\ UNCHANGED others

\* univ_graph, node_types = self.universal_projector.build_universal_graph():
\* the graph, or the exception of one of the two fetches
BuildLevel1 ==
  /\ pc = "build_l1"
  /\ \/ /\ univ_graph' = build_universal_graph(store)
        /\ pc' = "partition_l1"
        /\ UNCHANGED << store, err, comm_partition, gi, communities, ci,
                        all_updates, tools_batch, wf_batch, wi, runs, l2_log,
                        applied, prior, last, loads >>
     \/ QueryRaises
  /\ UNCHANGED others

\* comm_partition = self._run_leiden_on_graph(univ_graph, resolution=1.0)
PartitionLevel1 ==
  /\ pc = "partition_l1"
  /\ \E r \in run_leiden_on_graph(univ_graph) : comm_partition' = r
  /\ pc' = "grouping"
  /\ UNCHANGED << store, err, univ_graph, gi, communities, ci, all_updates,
                  tools_batch, wf_batch, wi, runs, l2_log, applied,
                  prior, last, loads >>
  /\ UNCHANGED others

\* the position of comm_id in the ordered dict, Len + 1 when it is not a key
EntryIndex(cs, comm_id) ==
  IndexOf([i \in DOMAIN cs |-> cs[i].comm_id], comm_id)

\* one iteration of `for node_key, comm_id in comm_partition.items()`
AddMember(cs, node_key, comm_id) ==
  LET cs1 == IF EntryIndex(cs, comm_id) > Len(cs)
             THEN Append(cs, [comm_id |-> comm_id, tools |-> <<>>, workflows |-> <<>>])
             ELSE cs
      i   == EntryIndex(cs1, comm_id)
      p   == ParseGrouping(node_key)
  IN  IF p.type_prefix = "Tool"
      THEN [cs1 EXCEPT ![i].tools = Append(@, p.real_id)]
      ELSE IF p.type_prefix = "Workflow"
           THEN [cs1 EXCEPT ![i].workflows = Append(@, p.real_id)]
           ELSE cs1

\* variant: the grouping loop may stop after its first item
GroupingFinished_Early == gi >= 1 \/ gi = Len(comm_partition)

\* the grouping loop has consumed every item of comm_partition
GroupingFinished == gi = Len(comm_partition)

GroupNode ==
  /\ pc = "grouping"
  /\ gi < Len(comm_partition)
  /\ communities' = AddMember(communities, comm_partition[gi + 1][1],
                              comm_partition[gi + 1][2])
  /\ gi' = gi + 1
  /\ UNCHANGED << store, pc, err, univ_graph, comm_partition, ci, all_updates,
                  tools_batch, wf_batch, wi, runs, l2_log, applied,
                  prior, last, loads >>
  /\ UNCHANGED others

\* the grouping loop ends; the Level-2 loop over communities.items() begins
EndGrouping ==
  /\ pc = "grouping"
  /\ GroupingFinished
  /\ pc' = "level2_tools"
  /\ UNCHANGED << store, err, locals, runs, applied, prior, last, loads >>
  /\ UNCHANGED others

\* the rows appended for one Level-2 tool partition
ToolRows(comm_id, tool_partition) ==
  [i \in DOMAIN tool_partition |->
     [type |-> "Tool", id |-> tool_partition[i][1], comm_id |-> comm_id,
      sub_id |-> SubId(comm_id, "T", tool_partition[i][2])]]

\* the rows appended for one Level-2 workflow partition
WorkflowRows(comm_id, wf_partition) ==
  [i \in DOMAIN wf_partition |->
     [type |-> "Workflow", id |-> ParseWorkflowKey(wf_partition[i][1]),
      comm_id |-> comm_id,
      sub_id |-> SubId(comm_id, "W", wf_partition[i][2])]]

\* wf_keys = [f"Workflow:{wid}" for wid in wf_ids]
WorkflowKeys(wf_ids) == [i \in DOMAIN wf_ids |-> MakeKey("Workflow", wf_ids[i])]

\* the Level-2 loop has gone through every entry of communities
Level2Finished == ci = Len(communities)

\* step 1 of the loop body: tool sub-communities of communities[ci + 1]
Level2Tools ==
  /\ pc = "level2_tools"
  /\ ~Level2Finished
  /\ LET members == communities[ci + 1]
     IN  IF members.tools = <<>>
         THEN /\ pc' = "level2_workflows"
              /\ UNCHANGED << err, all_updates, l2_log >>
         ELSE IF CallAccepted({"filter_tool_ids"}, build_weighted_graph_params)
              THEN /\ \E tp \in run_leiden_on_graph(build_weighted_graph(store)) :
                        /\ all_updates' = all_updates \o ToolRows(members.comm_id, tp)
                        /\ l2_log' = Append(l2_log, tp)
                   /\ pc' = "level2_workflows"
                   /\ err' = err
              ELSE /\ pc' = "raised"
                   /\ err' = "TypeError"
                   /\ UNCHANGED << all_updates, l2_log >>
  /\ UNCHANGED << store, univ_graph, comm_partition, gi, communities, ci,
                  tools_batch, wf_batch, wi, runs, applied, prior,
                  last, loads >>
  /\ UNCHANGED others

\* step 2 of the loop body: workflow sub-communities of communities[ci + 1]
Level2Workflows ==
  /\ pc = "level2_workflows"
  /\ LET members == communities[ci + 1]
     IN  IF members.workflows = <<>>
         THEN UNCHANGED << all_updates, l2_log >>
         ELSE \E wp \in run_leiden_on_graph(
                          subgraph(univ_graph, WorkflowKeys(members.workflows))) :
                /\ all_updates' = all_updates \o WorkflowRows(members.comm_id, wp)
                /\ l2_log' = Append(l2_log, wp)
  /\ ci' = ci + 1
  /\ pc' = "level2_tools"
  /\ UNCHANGED << store, err, univ_graph, comm_partition, gi, communities,
                  tools_batch, wf_batch, wi, runs, applied, prior,
                  last, loads >>
  /\ UNCHANGED others

\* the stage that follows the tool rows: `if wf_batch:`
AfterTools(wfs) == IF wfs # <<>> THEN "persist_workflows" ELSE "done"

\* the Level-2 loop ends; tools_batch and wf_batch are split off all_updates
BeginPersist ==
  /\ pc = "level2_tools"
  /\ Level2Finished
  /\ tools_batch' = RowsOfType(all_updates, "Tool")
  /\ wf_batch' = RowsOfType(all_updates, "Workflow")
  /\ pc' = IF tools_batch' # <<>> THEN "persist_tools" ELSE AfterTools(wf_batch')
  /\ UNCHANGED << store, err, univ_graph, comm_partition, gi, communities, ci,
                  all_updates, wi, runs, l2_log, applied, prior, last,
                  loads >>
  /\ UNCHANGED others

\* the data and the node label of the execute_batch call in progress
CurrentData == IF pc = "persist_tools" THEN tools_batch ELSE wf_batch

CurrentLabel == IF pc = "persist_tools" THEN "Tool" ELSE "Workflow"

\* one session.run of Neo4jManager.execute_batch, called with query_tool and
\* tools_batch, then with query_wf and wf_batch
WriteBatch ==
  /\ pc \in {"persist_tools", "persist_workflows"}
  /\ LET batch == BatchAt(CurrentData, wi)
     IN  /\ store' = ApplyBatch(store, batch, CurrentLabel)
         /\ prior' = Survive(prior, store', Touched(store, batch, CurrentLabel))
         /\ applied' = applied + Len(batch)
  /\ IF wi + BatchSize < Len(CurrentData)
     THEN wi' = wi + BatchSize /\ pc' = pc
     ELSE wi' = 0 /\ pc' = IF pc = "persist_tools" THEN AfterTools(wf_batch)
                           ELSE "done"
  /\ UNCHANGED << err, univ_graph, comm_partition, gi, communities, ci,
                  all_updates, tools_batch, wf_batch, runs, l2_log,
                  last, loads >>
  /\ UNCHANGED others

\* the store after session.run(query, {"batch": batch}) raised: the write is
\* one auto-commit transaction, which is rolled back as a whole
RolledBack(st, batch, label) == st

\* session.run raises: the transaction of that batch is rolled back and the
\* exception leaves execute_batch and run_hierarchical_detection
WriteFails ==
  /\ pc \in {"persist_tools", "persist_workflows"}
  /\ store' = RolledBack(store, BatchAt(CurrentData, wi), CurrentLabel)
  /\ pc' = "raised"
  /\ err' = "StoreError"
  /\ UNCHANGED << locals, runs, applied, prior, last, loads >>
  /\ UNCHANGED others

Next ==
  \/ load_tools
  \/ load_workflows
  \/ close
  \/ StartRun
  \/ CleanupNodes
  \/ CleanupProps
  \/ BuildLevel1
  \/ PartitionLevel1
  \/ GroupNode
  \/ EndGrouping
  \/ Level2Tools
  \/ Level2Workflows
  \/ BeginPersist
  \/ WriteBatch
  \/ WriteFails

Spec == Init /\ [][Next]_vars

(***************************************************************************)
(* The flat detector and the two projectors on their own.  The stores are  *)
(* those of Init and, beside them, stores of three tools and of the        *)
(* workflows a and c, each with an embedding, where the steps of the       *)
(* workflows use the tools a and b and these two have input and output     *)
(* formats.                                                                *)
(***************************************************************************)
\* the variables of run_hierarchical_detection other than its graph
hier == << pc, err, comm_partition, gi, communities, ci, all_updates,
           tools_batch, wf_batch, wi, runs, l2_log, applied, prior, last, loads >>

retrieval == << request, response, calls >>

\* the bags of steps with at most MaxRels steps
StepBags ==
  { b \in SubBag([p \in StepWorkflowIds \X LinkedToolIds |-> MaxRels]) :
      BagCardinality(b) <= MaxRels }

\* the sets of ACCEPTS_INPUT ("in") and PRODUCES_OUTPUT ("out") edges with
\* at most MaxRels edges
FormatEdgeSets ==
  { F \in SUBSET ({"in", "out"} \X LinkedToolIds \X FormatNames) :
      Cardinality(F) <= MaxRels }

ToolEmbMaps == [{ Tool(i) : i \in ProjectorToolIds } -> EmbDims]

\* load_tools and load_workflows set the embedding of every tool and of
\* every workflow they write, a list of 384 numbers or a shorter one; the
\* workflow of a step is one of the workflows written
BuiltEmbMaps(b) ==
  [{ Tool(i) : i \in ProjectorToolIds }
     \cup { Workflow(x[1]) : x \in BagToSet(b) } -> EmbDims]

\* the pairs above the threshold of which one is a workflow
SimilarWorkflowPairs(c) ==
  { p \in DOMAIN c : /\ c[p] > SimilarityThreshold
                     /\ \E n \in p : n[1] = "Workflow" }

\* a store right after the graph build, with steps b and format edges F
LinkedStore(e, c, b, F) ==
  [DataStore(e, c) EXCEPT
     !.steps = b,
     !.ACCEPTS_INPUT   = { <<x[2], x[3]>> : x \in { y \in F : y[1] = "in" } },
     !.PRODUCES_OUTPUT = { <<x[2], x[3]>> : x \in { y \in F : y[1] = "out" } }]

\* the stores: those of Init and, with at most MaxRels relations in all (steps,
\* format edges and similar pairs with a workflow), stores with steps
ProjInit ==
  /\ \/ \E e \in EmbMaps : \E c \in CosMaps(e) : store = DataStore(e, c)
     \/ \E b \in StepBags : \E F \in FormatEdgeSets :
          /\ BagCardinality(b) + Cardinality(F) <= MaxRels
          /\ \E e \in BuiltEmbMaps(b) : \E c \in CosMaps(e) :
               /\ BagCardinality(b) + Cardinality(F)
                    + Cardinality(SimilarWorkflowPairs(c)) <= MaxRels
               /\ store = LinkedStore(e, c, b, F)
  /\ pc = "idle"
  /\ err = ""
  /\ univ_graph = EmptyGraph
  /\ comm_partition = <<>>
  /\ gi = 0
  /\ communities = <<>>
  /\ ci = 0
  /\ all_updates = <<>>
  /\ tools_batch = <<>>
  /\ wf_batch = <<>>
  /\ wi = 0
  /\ runs = 0
  /\ l2_log = <<>>
  /\ applied = 0
  /\ prior = NoPrior
  /\ last = RunRecord("idle", "", FALSE, 0, 0, store, <<>>, <<>>)
  /\ loads = 0
  /\ nx_graph = EmptyWeightedGraph
  /\ finished = {}
  /\ request = NoRequest
  /\ response = NoResponse
  /\ calls = <<>>
  /\ stage = "idle"
  /\ events = <<>>
  /\ summarization = NoSummarization

RECURSIVE SetCommunityIds(_, _)
\* UNWIND $batch AS row  MATCH (t:Tool {id: row.tool_id})
\* SET t.communityId = row.community_id
SetCommunityIds(st, updates) ==
  IF updates = <<>> THEN st
  ELSE LET row == Head(updates)
           n   == Tool(row.tool_id)
       IN  SetCommunityIds(
             IF n \in DOMAIN st.emb
             THEN [st EXCEPT !.communityId = Put(@, n, row.community_id)]
             ELSE st,
             Tail(updates))

\* the list `updates` of run_leiden: a row for every node of every community
LeidenUpdates(items) ==
  [i \in DOMAIN items |-> [tool_id |-> items[i][1], community_id |-> items[i][2]]]

\* LeidenDetector.run_leiden
run_leiden ==
  /\ "run_leiden" \notin finished
  /\ \E G \in { build_weighted_graph(store) } :
       /\ nx_graph' = G
       /\ IF number_of_nodes(G) = 0
          THEN store' = store
          ELSE \E f \in find_partition(G) :
                 store' = SetCommunityIds(
                            store, LeidenUpdates(ItemsFrom(f, G.nodes, 0, Len(G.nodes))))
  /\ calls' = projector_queries(store)
  /\ finished' = finished \cup {"run_leiden"}
  /\ UNCHANGED << univ_graph, hier, request, response, pipeline >>

\* UniversalGraphProjector.build_universal_graph, called on its own
BuildUniversalGraph ==
  /\ "build_universal_graph" \notin finished
  /\ univ_graph' = build_universal_graph(store)
  /\ finished' = finished \cup {"build_universal_graph"}
  /\ UNCHANGED << store, nx_graph, hier, retrieval, pipeline >>

ProjNext ==
  \/ run_leiden
  \/ BuildUniversalGraph

ProjSpec == ProjInit /\ [][ProjNext]_vars

(***************************************************************************)
(* The retrieval engine (src/retrieval/search.py).  The field rank of a    *)
(* store lists the Tool nodes of the vector index 'tool_embeddings' (the   *)
(* tools with an embedding of 384 dimensions) by decreasing score for the  *)
(* query.  A search is one action; calls lists the collaborators it        *)
(* called: "embed" (EmbeddingService.generate_embedding), "store"          *)
(* (Neo4jManager.execute_query) and "model" (generate_content).            *)
(***************************************************************************)
\* the message of GlobalSearch.search when there is no community
NoCommunitiesText == "No communities found in the graph."

Min(a, b) == IF a < b THEN a ELSE b

\* name CONTAINS part
Contains(name, part) ==
  \E i \in 1 .. (Len(name) + 1) :
    /\ i + Len(part) - 1 <= Len(name)
    /\ SubSeq(name, i, i + Len(part) - 1) = part

\* CALL db.index.vector.queryNodes('tool_embeddings', $k, $embedding)
queryNodes(st, k) == SubSeq(st.rank, 1, Min(k, Len(st.rank)))

\* variant: the model is asked also when no community was fetched
GlobalSearch_AlwaysAsks(st, answer) ==
  [calls    |-> << "store", "model" >>,
   response |-> IF answer = "raises" THEN [kind |-> "raised"]
                ELSE [kind |-> "string", text |-> "response.text"]]

\* GlobalSearch.search, where answer is what generate_content does
GlobalSearch(st, answer) ==
  IF BagToSet(st.Community) = {}
  THEN [calls    |-> << "store" >>,
        response |-> [kind |-> "string", text |-> NoCommunitiesText]]
  ELSE [calls    |-> << "store", "model" >>,
        response |-> IF answer = "raises" THEN [kind |-> "raised"]
                     ELSE [kind |-> "string", text |-> "response.text"]]

\* the names collect(DISTINCT w.name) gathers for tool id: the workflows with
\* a step that uses the tool; collect leaves a null name out
UsingWorkflows(st, id) ==
  { IdOf(n) : n \in { m \in Range(st.order) \ st.unnamed :
                        /\ m[1] = "Workflow"
                        /\ BagIn(<<IdOf(m), id>>, st.steps) } }

\* the lists of n distinct elements of S
Arrangements(S, n) ==
  { s \in [1 .. n -> S] : \A i, j \in 1 .. n : s[i] = s[j] => i = j }

\* the rows context_query may return for tool id: the aggregation returns one
\* row whether or not the tool has any neighbour.  collect(DISTINCT
\* w.name)[0..3] has no ORDER BY: which three of the names it keeps, and in
\* which order, is left to the store.
Context(st, id) ==
  { [inputs    |-> { f \in Range(FormatOrder) : <<id, f>> \in st.ACCEPTS_INPUT },
     outputs   |-> { f \in Range(FormatOrder) : <<id, f>> \in st.PRODUCES_OUTPUT },
     workflows |-> ws] :
    ws \in Arrangements(UsingWorkflows(st, id),
                        Min(3, Cardinality(UsingWorkflows(st, id)))) }

RECURSIVE Enhanced(_, _)
\* the loop of LocalSearch.search over the rows of the vector search: the
\* lists enhanced_results it may build
Enhanced(st, results) ==
  IF results = <<>> THEN { <<>> }
  ELSE { << [tool |-> IdOf(Head(results)), context |-> c] >> \o rest :
           c \in Context(st, IdOf(Head(results))),
           rest \in Enhanced(st, Tail(results)) }

\* variant: the vector search is run whatever generate_embedding returned
LocalSearch_NoGuard(st, top_k, embedding) ==
  IF embedding = "empty"
  THEN { [calls |-> << "embed", "store" >>, response |-> [kind |-> "raised"]] }
  ELSE LET results == queryNodes(st, top_k)
       IN  { [calls    |-> << "embed", "store" >> \o [i \in DOMAIN results |-> "store"],
              response |-> [kind |-> "list", rows |-> rows]] :
             rows \in Enhanced(st, results) }

\* LocalSearch.search, where embedding is what generate_embedding returned
\* ("empty" for [], "vector" for a vector): what it may call and return
LocalSearch(st, top_k, embedding) ==
  IF embedding = "empty"
  THEN { [calls |-> << "embed" >>, response |-> [kind |-> "list", rows |-> <<>>]] }
  ELSE LET results == queryNodes(st, top_k)
       IN  { [calls    |-> << "embed", "store" >> \o [i \in DOMAIN results |-> "store"],
              response |-> [kind |-> "list", rows |-> rows]] :
             rows \in Enhanced(st, results) }

RECURSIVE FilterRows(_, _, _)
\* MATCH (node)-[:ACCEPTS_INPUT]->(f:FileFormat) WHERE f.name CONTAINS F
\* RETURN node.name ...: one row for every hit and every format that matches
FilterRows(st, hits, input_format) ==
  IF hits = <<>> THEN <<>>
  ELSE LET id == IdOf(Head(hits))
           fs == SelectSeq(FormatOrder,
                           LAMBDA f : /\ <<id, f>> \in st.ACCEPTS_INPUT
                                      /\ Contains(f, input_format))
       IN  [i \in DOMAIN fs |-> [name |-> id]]
             \o FilterRows(st, Tail(hits), input_format)

\* HybridSearch.search; input_format <<>> stands for None and for ''.  The
\* store rejects a query vector that has not the dimensions of the index.
HybridSearch(st, input_format, top_k, embedding) ==
  IF embedding = "empty"
  THEN [calls |-> << "embed", "store" >>, response |-> [kind |-> "raised"]]
  ELSE LET hits == queryNodes(st, top_k)
       IN  [calls    |-> << "embed", "store" >>,
            response |-> [kind |-> "list",
                          rows |-> IF input_format # <<>>
                                   THEN FilterRows(st, hits, input_format)
                                   ELSE [i \in DOMAIN hits |-> [name |-> IdOf(hits[i])]]]]

LinkedEmbMaps == [{ Tool(i) : i \in LinkedToolIds } -> EmbDims]

\* a store after the graph build and, when C is not empty, after detection:
\* the tools accept the formats A, and the index ranks them as r
SearchStore(e, c, A, C, r) ==
  [DataStore(e, c) EXCEPT !.ACCEPTS_INPUT = A, !.Community = C, !.rank = r]

\* the nodes of the catalog whose row may lack a name, and the tool whose
\* row may lack a description
MaybeUnnamed == { Workflow(<<"a">>), Workflow(<<"d">>) }

MaybeUndescribed == { Tool(<<"a">>) }

\* the steps of a catalog of four workflows: workflow a uses the tool a in
\* two steps, the workflows a:b, c and d use it in one, and c uses b as well
CatalogSteps ==
  SetToBag((WorkflowIds \cup { <<"d">> }) \X { <<"a">> })
    (+) SetToBag({ << <<"a">>, <<"a">> >>, << <<"c">>, <<"b">> >> })

\* its format edges: ACCEPTS_INPUT ("in") and PRODUCES_OUTPUT ("out")
CatalogFormats ==
  { << "in", <<"a">>, <<"fastq">> >>, << "out", <<"a">>, <<"fastq", "sanger">> >>,
    << "out", <<"b">>, <<"fastq">> >> }

\* the embeddings after the build of a part of that catalog with the steps b,
\* every embedding call answered
CatalogEmbMap(b) ==
  [n \in { Tool(i) : i \in LinkedToolIds }
            \cup { Workflow(x[1]) : x \in BagToSet(b) } |-> ExpectedDim]

SearchInit ==
  /\ \/ \E e \in LinkedEmbMaps : \E c \in CosMaps(e) :
          \E A \in SUBSET (LinkedToolIds \X Range(FormatOrder)) :
            \E C \in {EmptyBag, SetToBag({0})} :
              \E r \in Perms({ n \in DOMAIN e : e[n] = ExpectedDim }) :
                \E D \in SUBSET MaybeUndescribed :
                  store = [SearchStore(e, c, A, C, r) EXCEPT !.undescribed = D]
     \/ \E b \in SubBag(CatalogSteps) : \E F \in SUBSET CatalogFormats :
          \E v \in SimValues : \E r \in Perms({ Tool(i) : i \in LinkedToolIds }) :
            LET e == CatalogEmbMap(b)
            IN  \E U \in SUBSET (MaybeUnnamed \cap DOMAIN e) :
                  store = [LinkedStore(e, [p \in Pairs(DOMAIN e) |-> v], b, F)
                             EXCEPT !.rank = r, !.unnamed = U]
  /\ pc = "idle"
  /\ err = ""
  /\ univ_graph = EmptyGraph
  /\ comm_partition = <<>>
  /\ gi = 0
  /\ communities = <<>>
  /\ ci = 0
  /\ all_updates = <<>>
  /\ tools_batch = <<>>
  /\ wf_batch = <<>>
  /\ wi = 0
  /\ runs = 0
  /\ l2_log = <<>>
  /\ applied = 0
  /\ prior = NoPrior
  /\ last = RunRecord("idle", "", FALSE, 0, 0, store, <<>>, <<>>)
  /\ loads = 0
  /\ nx_graph = EmptyWeightedGraph
  /\ finished = {}
  /\ request = NoRequest
  /\ response = NoResponse
  /\ calls = <<>>
  /\ stage = "idle"
  /\ events = <<>>
  /\ summarization = NoSummarization

\* global_search.search(query), on a searcher made for this one query
GlobalSearch_search ==
  /\ request = NoRequest
  /\ \E answer \in {"text", "raises"} :
       LET out == GlobalSearch(store, answer)
       IN  /\ request' = [mode |-> "global", input_format |-> <<>>, top_k |-> 0,
                          embedding |-> "none"]
           /\ response' = out.response
           /\ calls' = out.calls
  /\ UNCHANGED << store, univ_graph, hier, nx_graph, finished, pipeline >>

\* local_search.search(query, top_k), on a searcher made for this one query
LocalSearch_search ==
  /\ request = NoRequest
  /\ \E top_k \in 1 .. MaxTopK : \E embedding \in {"empty", "vector"} :
       \E out \in LocalSearch(store, top_k, embedding) :
         /\ request' = [mode |-> "local", input_format |-> <<>>, top_k |-> top_k,
                        embedding |-> embedding]
         /\ response' = out.response
         /\ calls' = out.calls
  /\ UNCHANGED << store, univ_graph, hier, nx_graph, finished, pipeline >>

\* hybrid_search.search(query, input_format, top_k), on a searcher made for
\* this one query
HybridSearch_search ==
  /\ request = NoRequest
  /\ \E top_k \in 1 .. MaxTopK : \E embedding \in {"empty", "vector"} :
       \E input_format \in {<<>>} \cup Range(FormatOrder) :
         LET out == HybridSearch(store, input_format, top_k, embedding)
         IN  /\ request' = [mode |-> "hybrid", input_format |-> input_format,
                            top_k |-> top_k, embedding |-> embedding]
             /\ response' = out.response
             /\ calls' = out.calls
  /\ UNCHANGED << store, univ_graph, hier, nx_graph, finished, pipeline >>

\* the default top_k of LocalSearch.search and of HybridSearch.search
LocalTopK == 3

HybridTopK == 5

\* the branch of run_query: auto selects global for a query of more than five
\* words and local otherwise
SelectedMode(mode, words) ==
  IF mode \in {"global", "local", "hybrid"} THEN mode
  ELSE IF words > 5 THEN "global" ELSE "local"

\* the loop of run_query that prints the rows of a local search:
\* res['tool']['description'][:150] raises TypeError on a description that
\* is null
PrintRaises(st, rows) ==
  \E i \in DOMAIN rows : Tool(rows[i].tool) \in st.undescribed

\* run_query(query, mode): words is len(query.split()), key tells whether
\* GEMINI_API_KEY is set, answer what generate_content does and embedding
\* what generate_embedding returns.  The constructor of GlobalSearch raises
\* ValueError without a key; nothing in run_query catches an exception, and
\* what the searcher returned is printed.
run_query(st, mode, words, key, answer, embedding) ==
  LET m    == SelectedMode(mode, words)
      outs == CASE m = "global" ->
                     IF ~key THEN { [calls |-> <<>>, response |-> [kind |-> "raised"]] }
                     ELSE { GlobalSearch(st, answer) }
                [] m = "local"  -> LocalSearch(st, LocalTopK, embedding)
                [] m = "hybrid" -> { HybridSearch(st, <<>>, HybridTopK, embedding) }
  IN  { [calls    |-> out.calls,
         response |-> IF out.response.kind = "raised" THEN out.response
                      ELSE IF m = "local" /\ PrintRaises(st, out.response.rows)
                           THEN [kind |-> "raised"]
                           ELSE [kind |-> "printed", result |-> out.response]] :
        out \in outs }

\* main(): --query <text> --mode {global,local,hybrid,auto}; the process
\* starts, serves this one query and exits
run_query_call ==
  /\ request = NoRequest
  /\ \E mode \in {"global", "local", "hybrid", "auto"} : \E words \in {5, 6} :
       \E key \in BOOLEAN : \E answer \in {"text", "raises"} :
         \E embedding \in {"empty", "vector"} :
           \E out \in run_query(store, mode, words, key, answer, embedding) :
             /\ request' = [mode |-> "run_query", cli_mode |-> mode,
                            words |-> words, key |-> key, answer |-> answer,
                            embedding |-> embedding]
             /\ response' = out.response
             /\ calls' = out.calls
  /\ UNCHANGED << store, univ_graph, hier, nx_graph, finished, pipeline >>

SearchNext ==
  \/ GlobalSearch_search
  \/ LocalSearch_search
  \/ HybridSearch_search
  \/ run_query_call

SearchSpec == SearchInit /\ [][SearchNext]_vars

(***************************************************************************)
(* The service calls with a retry or batch loop, each on its own:          *)
(* EmbeddingService.generate_embedding (src/utils/embeddings.py),          *)
(* get_with_retry (src/data_extraction/galaxy_extractor.py) and            *)
(* Neo4jManager.execute_batch (src/graph_db/neo4j_manager.py).  request is *)
(* the call in progress, calls lists what the remote service answered to   *)
(* each attempt (for execute_batch: the batches sent), and response stays  *)
(* NoResponse until the call returns or raises.  The field label of an     *)
(* execute_batch call tells what its query writes: "Workflow" for query_wf *)
(* of run_hierarchical_detection, whose rows SET the properties of the     *)
(* Workflow node of their id and MERGE its community nodes and edges, and  *)
(* "none" for a query whose rows match no node of the store.               *)
(***************************************************************************)
\* the store before the graph build
EmptyStore == DataStore(<<>>, <<>>)

\* no run, projection or retrieval has happened on the store st
Untouched(st) ==
  /\ pc = "idle"
  /\ err = ""
  /\ univ_graph = EmptyGraph
  /\ comm_partition = <<>>
  /\ gi = 0
  /\ communities = <<>>
  /\ ci = 0
  /\ all_updates = <<>>
  /\ tools_batch = <<>>
  /\ wf_batch = <<>>
  /\ wi = 0
  /\ runs = 0
  /\ l2_log = <<>>
  /\ applied = 0
  /\ prior = NoPrior
  /\ last = RunRecord("idle", "", FALSE, 0, 0, st, <<>>, <<>>)
  /\ loads = 0
  /\ nx_graph = EmptyWeightedGraph
  /\ finished = {}
  /\ request = NoRequest
  /\ response = NoResponse
  /\ calls = <<>>
  /\ stage = "idle"
  /\ events = <<>>
  /\ summarization = NoSummarization

ServiceInit ==
  /\ store = EmptyStore
  /\ Untouched(store)

\* no service call is in progress
NoCallRunning == request.mode = "none" \/ response # NoResponse

\* for attempt in range(3)
EmbeddingAttempts == 3

\* the answers of requests.post: status 200 with a list of lists, with a flat
\* list, with the empty list or with another JSON value; status 503; another
\* status; an exception (of the request or of response.json())
PostOutcomes ==
  {"200_nested", "200_flat", "200_empty", "200_object", "503", "other_status",
   "exception"}

\* variant: the attempts that are retried are not counted
EmbeddingAttempt_NoCap(attempt, outcome) ==
  CASE outcome = "200_nested" -> [kind |-> "list", value |-> "data[0]"]
    [] outcome = "200_flat"   -> [kind |-> "list", value |-> "data"]
    [] outcome \in {"200_empty", "200_object", "other_status"}
                              -> [kind |-> "list", value |-> "[]"]
    [] outcome \in {"503", "exception"} -> NoResponse

\* the body of the loop of generate_embedding on attempt number `attempt`
\* (from 0): what the call returns, or NoResponse when the loop goes on
EmbeddingAttempt(attempt, outcome) ==
  CASE outcome = "200_nested" -> [kind |-> "list", value |-> "data[0]"]
    [] outcome = "200_flat"   -> [kind |-> "list", value |-> "data"]
    [] outcome \in {"200_empty", "200_object", "other_status"}
                              -> [kind |-> "list", value |-> "[]"]
    [] outcome \in {"503", "exception"}
                              -> IF attempt + 1 < EmbeddingAttempts THEN NoResponse
                                 ELSE [kind |-> "list", value |-> "[]"]

\* generate_embedding(text) up to its loop: text tells whether the text is
\* not empty, api_url whether the URL and the token are configured
generate_embedding_call ==
  /\ NoCallRunning
  /\ \E text \in BOOLEAN : \E api_url \in BOOLEAN :
       /\ request' = [mode |-> "generate_embedding", text |-> text,
                      api_url |-> api_url]
       /\ response' = IF ~text \/ ~api_url THEN [kind |-> "list", value |-> "[]"]
                      ELSE NoResponse
  /\ calls' = <<>>
  /\ UNCHANGED << store, univ_graph, hier, nx_graph, finished, pipeline >>

\* one pass of the loop of generate_embedding: requests.post and what follows
requests_post ==
  /\ request.mode = "generate_embedding"
  /\ response = NoResponse
  /\ \E outcome \in PostOutcomes :
       /\ calls' = Append(calls, outcome)
       /\ response' = EmbeddingAttempt(Len(calls), outcome)
  /\ UNCHANGED << store, univ_graph, hier, nx_graph, finished, request, pipeline >>

\* variant: batch = data[i : i + batch_size - 1]
DataSlice_OneShort(data, i, batch_size) ==
  SubSeq(data, i + 1, Min(i + batch_size - 1, Len(data)))

\* batch = data[i : i + batch_size]
DataSlice(data, i, batch_size) ==
  SubSeq(data, i + 1, Min(i + batch_size, Len(data)))

\* the calls of execute_batch: a list of n records with a batch size, given
\* or left to its default; the lists of one batch of the default size and of
\* one record more are among them
BatchInputs ==
  ((0 .. MaxRecords) \X (1 .. MaxBatchSize))
    \cup (((0 .. MaxRecords) \cup {BatchSize, BatchSize + 1}) \X {BatchSize})

\* execute_batch(query, data, batch_size) up to its loop: data is a list of
\* n records; i is the loop variable of `for i in range(0, total, batch_size)`
execute_batch_call ==
  /\ NoCallRunning
  /\ \E input \in BatchInputs :
     LET n == input[1]  batch_size == input[2] IN
       /\ request' = [mode |-> "execute_batch", label |-> "none",
                      data |-> [k \in 1 .. n |-> k],
                      batch_size |-> batch_size, i |-> 0]
       /\ response' = IF n = 0 THEN [kind |-> "returned"] ELSE NoResponse
  /\ calls' = <<>>
  /\ UNCHANGED << store, univ_graph, hier, nx_graph, finished, pipeline >>

\* the store after the rows of batch were committed
Committed(st, batch, label) ==
  IF label = "none" THEN st ELSE ApplyBatch(st, batch, label)

\* one pass of the loop of execute_batch: session.run(query, {"batch": batch})
\* commits its batch, or raises, its transaction is rolled back and the
\* exception leaves execute_batch; the batches committed before stay
session_run ==
  /\ request.mode = "execute_batch"
  /\ response = NoResponse
  /\ \E ok \in BOOLEAN :
       LET batch == DataSlice(request.data, request.i, request.batch_size)
       IN  IF ok
           THEN /\ store' = Committed(store, batch, request.label)
                /\ calls' = Append(calls, batch)
                /\ request' = [request EXCEPT !.i = @ + request.batch_size]
                /\ response' = IF request.i + request.batch_size < Len(request.data)
                               THEN NoResponse ELSE [kind |-> "returned"]
           ELSE /\ store' = IF request.label = "none" THEN store
                            ELSE RolledBack(store, batch, request.label)
                /\ response' = [kind |-> "raised"]
                /\ UNCHANGED << calls, request >>
  /\ UNCHANGED << univ_graph, hier, nx_graph, finished, pipeline >>

MAX_RETRIES == 5

\* what requests.get does: raises a RequestException; answers 429 with no
\* Retry-After header or a number in it; answers 429 with a Retry-After that
\* float() or time.sleep() rejects (an HTTP date, a negative number);
\* answers 5xx; answers another non-success status; answers success
GetOutcomes == {"exception", "429", "429_bad_retry_after", "5xx", "other", "ok"}

\* variant: a 429 is retried whatever the number of attempts made
GetAttempt_NoCapOn429(attempt, outcome) ==
  CASE outcome = "exception" ->
         IF attempt = MAX_RETRIES - 1 THEN [kind |-> "None"] ELSE NoResponse
    [] outcome = "429" -> NoResponse
    [] outcome = "429_bad_retry_after" -> [kind |-> "raised"]
    [] outcome = "ok" -> [kind |-> "resp"]
    [] outcome = "5xx" ->
         IF attempt < MAX_RETRIES - 1 THEN NoResponse ELSE [kind |-> "None"]
    [] outcome = "other" -> [kind |-> "None"]

\* the body of the loop of get_with_retry on attempt number `attempt` (from
\* 0): what the call returns or raises, or NoResponse when the loop goes on;
\* a `continue` on the last attempt ends the loop, and None is returned
GetAttempt(attempt, outcome) ==
  CASE outcome = "exception" ->
         IF attempt = MAX_RETRIES - 1 THEN [kind |-> "None"] ELSE NoResponse
    [] outcome = "429" ->
         IF attempt + 1 < MAX_RETRIES THEN NoResponse ELSE [kind |-> "None"]
    [] outcome = "429_bad_retry_after" -> [kind |-> "raised"]
    [] outcome = "ok" -> [kind |-> "resp"]
    [] outcome = "5xx" ->
         IF attempt < MAX_RETRIES - 1 THEN NoResponse ELSE [kind |-> "None"]
    [] outcome = "other" -> [kind |-> "None"]

\* get_with_retry(url, params) up to its loop
get_with_retry_call ==
  /\ NoCallRunning
  /\ request' = [mode |-> "get_with_retry"]
  /\ response' = NoResponse
  /\ calls' = <<>>
  /\ UNCHANGED << store, univ_graph, hier, nx_graph, finished, pipeline >>

\* one pass of the loop of get_with_retry: requests.get and what follows
requests_get ==
  /\ request.mode = "get_with_retry"
  /\ response = NoResponse
  /\ \E outcome \in GetOutcomes :
       /\ calls' = Append(calls, outcome)
       /\ response' = GetAttempt(Len(calls), outcome)
  /\ UNCHANGED << store, univ_graph, hier, nx_graph, finished, request, pipeline >>

ServiceNext ==
  \/ generate_embedding_call
  \/ requests_post
  \/ get_with_retry_call
  \/ requests_get
  \/ execute_batch_call
  \/ session_run

ServiceSpec == ServiceInit /\ [][ServiceNext]_vars

(***************************************************************************)
(* Persistence.  run_hierarchical_detection hands its rows to              *)
(* execute_batch(query, data), which sends them 1000 at a time; a run on   *)
(* the stores of Init has at most three rows and so one write.  Here       *)
(* execute_batch is also called on its own, with query_wf, a row for every *)
(* Workflow node of the store and a batch size of 1 or of the default,     *)
(* before any run: its writes change the store one batch at a time, and    *)
(* the run that follows starts from what the call left.                    *)
(***************************************************************************)
\* the row run_hierarchical_detection writes for workflow id in community
\* comm_id and sub-community sub_id of it
DetectedRow(id, comm_id, sub_id) ==
  [type |-> "Workflow", id |-> id, comm_id |-> comm_id,
   sub_id |-> SubId(comm_id, "W", sub_id)]

\* the rows of the call: a row for every Workflow node of the store, in
\* its order, all in sub-community 0 of community 1
PersistRows(st) ==
  LET ws == SelectSeq(st.order, LAMBDA n : n[1] = "Workflow")
  IN  [i \in DOMAIN ws |-> DetectedRow(IdOf(ws[i]), 1, 0)]

\* a step of the detector or of the loader while no execute_batch call is
\* in progress; after such a call, the steps of one run
DetectorStep ==
  /\ \/ request = NoRequest
     \/ /\ response # NoResponse
        /\ runs = 0 \/ pc \notin {"done", "raised", "closed"}
  /\ Next

\* self.neo4j.execute_batch(query_wf, data, batch_size) up to its loop,
\* called with the detector idle
PersistCall ==
  /\ pc = "idle"
  /\ runs = 0
  /\ request = NoRequest
  /\ \E data \in { PersistRows(store) } :
       \E batch_size \in {1, BatchSize} :
         /\ request' = [mode |-> "execute_batch", label |-> "Workflow", data |-> data,
                        batch_size |-> batch_size, i |-> 0]
         /\ response' = IF data = <<>> THEN [kind |-> "returned"] ELSE NoResponse
  /\ calls' = <<>>
  /\ UNCHANGED << store, univ_graph, hier, nx_graph, finished, pipeline >>

PersistNext ==
  \/ DetectorStep
  \/ PersistCall
  \/ session_run

PersistSpec == Init /\ [][PersistNext]_vars

(***************************************************************************)
(* The summarizer (src/community_detection/summarizer.py) and the build    *)
(* pipeline (build_pipeline of src/main.py).  The field summary of a store *)
(* holds the name and summary set on Community and SubCommunity nodes.     *)
(* The stores the summarizer starts from are those a completed             *)
(* hierarchical detection leaves: as a valid Tool ends that run with a     *)
(* TypeError, their members are workflows.  The graph build of the         *)
(* pipeline is followed write by write: after the constructor, stage names *)
(* the call of build_full_graph that comes next.  The catalog it loads has *)
(* three tools, up to two workflows and at most MaxBuildRels relations.    *)
(***************************************************************************)
\* the ids of the nodes of the bag that have a Tool or Workflow member over
\* the edges
GroupIds(nodes, edges) ==
  { c \in BagToSet(nodes) : \E e \in BagToSet(edges) : e[2] = c }

\* the rows fetch_communities / fetch_subcommunities may return: a row for
\* every such id, in an order the query leaves to the store.  A member is
\* collected as labels(n)[0] + ": " + n.name + " - " + coalesce(n.description,
\* ''), which is null for a node whose name is null, and collect leaves a
\* null out: members holds the members that have a name.
FetchGroups(st, nodes, edges) ==
  { [i \in DOMAIN seq |->
       [id |-> seq[i],
        members |-> { e[1] : e \in { x \in BagToSet(edges) :
                                       /\ x[2] = seq[i]
                                       /\ x[1] \notin st.unnamed } }]] :
    seq \in Perms(GroupIds(nodes, edges)) }

fetch_communities(st) == FetchGroups(st, st.Community, st.IN_COMMUNITY)

fetch_subcommunities(st) == FetchGroups(st, st.SubCommunity, st.IN_SUBCOMMUNITY)

(***************************************************************************)
(* response.text is a sequence of words, of blanks " " and of line ends    *)
(* "\n"; "Title:" and "Summary:" are words of their own.                   *)
(***************************************************************************)
RECURSIVE lstrip(_)
lstrip(text) ==
  IF text # <<>> /\ Head(text) \in {" ", "\n"} THEN lstrip(Tail(text)) ELSE text

RECURSIVE rstrip(_)
rstrip(text) ==
  IF text # <<>> /\ text[Len(text)] \in {" ", "\n"}
  THEN rstrip(SubSeq(text, 1, Len(text) - 1))
  ELSE text

\* str.strip()
strip(text) == rstrip(lstrip(text))

RECURSIVE split(_)
\* text.split('\n')
split(text) ==
  IF "\n" \notin Range(text) THEN << text >>
  ELSE << SubSeq(text, 1, IndexOf(text, "\n") - 1) >>
         \o split(SubSeq(text, IndexOf(text, "\n") + 1, Len(text)))

\* line.startswith(tag)
startswith(line, tag) == line # <<>> /\ Head(line) = tag

\* line.replace(tag, "")
replace(line, tag) == SelectSeq(line, LAMBDA t : t # tag)

RECURSIVE ParseLines(_, _, _)
\* the loop `for line in text.split('\n')` of generate_summary
ParseLines(lines, title, summary) ==
  IF lines = <<>> THEN [title |-> title, summary |-> summary]
  ELSE IF startswith(Head(lines), "Title:")
       THEN ParseLines(Tail(lines), strip(replace(Head(lines), "Title:")), summary)
       ELSE IF startswith(Head(lines), "Summary:")
            THEN ParseLines(Tail(lines), title, strip(replace(Head(lines), "Summary:")))
            ELSE ParseLines(Tail(lines), title, summary)

\* the answer in the format the prompt asks for
AsAsked == << "Title:", " ", "<Title>", "\n", "Summary:", " ", "<Summary>" >>

\* the same with the indentation and the line ends of the prompt's Format
\* block
AsIndented ==
  << "\n", " ", "Title:", " ", "<Title>", "\n",
     " ", "Summary:", " ", "<Summary>", "\n" >>

\* the texts generate_content may answer with: the two above, a text with no
\* such line, the empty text, each line alone, and the two on one line
AnswerTexts ==
  { AsAsked, AsIndented, << "text" >>, << >>,
    << "Title:", " ", "<Title>" >>,
    << "Summary:", " ", "<Summary>" >>,
    << "Title:", " ", "<Title>", " ", "Summary:", " ", "<Summary>" >> }

\* what generate_content does for one item: it answers with a text, or it
\* raises an exception
ModelAnswers ==
  { [raises |-> FALSE, text |-> t] : t \in AnswerTexts }
    \cup { [raises |-> TRUE, text |-> << >>] }

\* generate_summary(members_list, level), given what the model does
generate_summary(members_list, answer) ==
  IF members_list = {}
  THEN [title |-> << "Empty Community" >>, summary |-> << "No members found." >>]
  ELSE IF answer.raises
       THEN [title |-> << "Error" >>, summary |-> << "Could not generate summary." >>]
       ELSE ParseLines(split(strip(answer.text)),
                       << "Unknown" >>, << "No summary generated." >>)

\* the items among the fetched rows recs that the model is asked about:
\* generate_summary returns at once for an empty list of members
Asked(recs, label) ==
  { <<label, recs[i].id>> : i \in { j \in DOMAIN recs : recs[j].members # {} } }

\* no call of generate_content was made for the item
NoCall == [raises |-> FALSE, text |-> << "no call" >>]

\* what the model did for an item
AnswerFor(answers, item) ==
  IF item \in DOMAIN answers THEN answers[item] ELSE NoCall

\* variant: an item whose model call raised gets no row
SummaryRows_SkipsFailed(recs, label, answers) ==
  LET kept == SelectSeq(recs, LAMBDA rec : ~AnswerFor(answers, <<label, rec.id>>).raises)
  IN  [i \in DOMAIN kept |->
         LET s == generate_summary(kept[i].members,
                                   AnswerFor(answers, <<label, kept[i].id>>))
         IN  [id |-> kept[i].id, title |-> s.title, summary |-> s.summary]]

\* the loop `for rec in communities` (and `for rec in subcommunities`): the
\* list comm_updates (sub_updates)
SummaryRows(recs, label, answers) ==
  [i \in DOMAIN recs |->
     LET s == generate_summary(recs[i].members,
                               AnswerFor(answers, <<label, recs[i].id>>))
     IN  [id |-> recs[i].id, title |-> s.title, summary |-> s.summary]]

RECURSIVE SetSummaries(_, _, _)
\* UNWIND $batch AS row  MATCH (c:Community {id: row.id})
\* SET c.name = row.title, c.summary = row.summary
SetSummaries(st, rows, label) ==
  IF rows = <<>> THEN st
  ELSE LET row == Head(rows)
           bag == IF label = "Community" THEN st.Community ELSE st.SubCommunity
       IN  SetSummaries(
             IF BagIn(row.id, bag)
             THEN [st EXCEPT !.summary =
                     Put(@, <<label, row.id>>, [name |-> row.title, summary |-> row.summary])]
             ELSE st,
             Tail(rows), label)

\* one of the two loops of run_summarization: the rows a fetch returned, what
\* the model did for each item it was asked about, and the list of updates
SummaryPass(fetched, label) ==
  UNION { { [recs |-> recs, updates |-> SummaryRows(recs, label, a), answers |-> a] :
            a \in [Asked(recs, label) -> ModelAnswers] } :
          recs \in fetched }

\* the answers a1 and those of a2
Joined(a1, a2) ==
  [x \in (DOMAIN a1) \cup (DOMAIN a2) |-> IF x \in DOMAIN a1 THEN a1[x] ELSE a2[x]]

\* the rows of a completed run on one workflow and on two workflows: in one
\* community and one sub-community, in one community and two
\* sub-communities, in two communities
DetectedRows ==
  { << DetectedRow(<<"a">>, 0, 0) >>,
    << DetectedRow(<<"a">>, 0, 0), DetectedRow(<<"c">>, 0, 0) >>,
    << DetectedRow(<<"a">>, 0, 0), DetectedRow(<<"c">>, 0, 1) >>,
    << DetectedRow(<<"a">>, 0, 0), DetectedRow(<<"c">>, 1, 0) >> }

\* the stores a completed hierarchical detection leaves, where the workflows
\* U were loaded from rows without a name
DetectedStores ==
  UNION { LET e == [n \in { Workflow(rows[i].id) : i \in DOMAIN rows } |-> ExpectedDim]
          IN  { ApplyBatch([DataStore(e, c) EXCEPT !.unnamed = U], rows, "Workflow") :
                c \in CosMaps(e), U \in SUBSET DOMAIN e } :
          rows \in DetectedRows }

PipeInit ==
  /\ store \in {EmptyStore} \cup DetectedStores
  /\ Untouched(store)

\* what `obj = Class(); try: obj.run() except: return; finally: obj.close()`
\* does, where outcome is "ctor_raises", "raises" or "ok" and close_ok tells
\* whether close() returns
TryStage(obj, outcome, close_ok) ==
  IF outcome = "ctor_raises" THEN << [op |-> "new", obj |-> obj, ok |-> FALSE] >>
  ELSE << [op |-> "new",   obj |-> obj, ok |-> TRUE],
          [op |-> "run",   obj |-> obj, ok |-> outcome = "ok"],
          [op |-> "close", obj |-> obj, ok |-> close_ok] >>

\* variant: the except clause of a stage does not return
StageExit_NoReturn(outcome, close_ok, next) ==
  IF outcome = "ctor_raises" \/ ~close_ok THEN "raised"
  ELSE next

\* where build_pipeline is after that stage: an exception of the constructor
\* or of close() leaves build_pipeline, an exception of the stage makes it
\* return, and otherwise it is at `next`
StageExit(outcome, close_ok, next) ==
  IF outcome = "ctor_raises" \/ ~close_ok THEN "raised"
  ELSE IF outcome = "raises" THEN "returned"
  ELSE next

StageOutcomes == {"ctor_raises", "raises", "ok"}

\* print("Pipeline Completed Successfully!")
Banner == [op |-> "print", obj |-> "banner", ok |-> TRUE]

\* the bound on the relations of the catalog build_full_graph loads
MaxBuildRels == 1

\* the relations of a store: format edges, steps and similar pairs with a
\* workflow
Relations(st) ==
  Cardinality(st.ACCEPTS_INPUT) + Cardinality(st.PRODUCES_OUTPUT)
    + BagCardinality(st.steps) + Cardinality(SimilarWorkflowPairs(st.cos))

\* the calls of build_full_graph that write to the store; stage names the
\* one build_pipeline is about to make
BuildSteps ==
  { "clear_database", "load_tools", "load_formats", "load_workflows", "load_steps" }

\* [Step 1/3]: builder = GraphBuilder()
BuildStage ==
  /\ stage = "idle"
  /\ events = <<>>
  /\ \E outcome \in {"ctor_raises", "ok"} :
       /\ events' = << Head(TryStage("builder", outcome, TRUE)) >>
       /\ stage' = IF outcome = "ok" THEN "clear_database"
                   ELSE StageExit(outcome, TRUE, "built")
  /\ UNCHANGED << store, univ_graph, hier, nx_graph, finished, retrieval, summarization >>

\* a call of build_full_graph raises: `except: return`, after
\* `finally: builder.close()`
BuildRaises ==
  \E close_ok \in BOOLEAN :
    /\ events' = events \o Tail(TryStage("builder", "raises", close_ok))
    /\ stage' = StageExit("raises", close_ok, "built")

\* clear_database(): MATCH (n) DETACH DELETE n; and create_indexes(), which
\* writes no node and catches what its queries raise
clear_database ==
  /\ stage = "clear_database"
  /\ \/ /\ store' = EmptyStore
        /\ stage' = "load_tools"
        /\ UNCHANGED events
     \/ /\ store' = store
        /\ BuildRaises
  /\ UNCHANGED << univ_graph, hier, nx_graph, finished, retrieval, summarization >>

\* load_tools up to its first write: the file is read, an embedding is asked
\* for every tool, and the Tool rows are written in one query; a missing
\* file or a failed query leaves the store as it was
build_load_tools ==
  /\ stage = "load_tools"
  /\ \/ /\ \E e \in ToolEmbMaps : \E c \in CosMaps(e) : store' = DataStore(e, c)
        /\ stage' = "load_formats"
        /\ UNCHANGED events
     \/ /\ store' = store
        /\ BuildRaises
  /\ UNCHANGED << univ_graph, hier, nx_graph, finished, retrieval, summarization >>

\* the rest of load_tools: the category query, which writes nothing the store
\* of the model holds, and the format query
build_load_formats ==
  /\ stage = "load_formats"
  /\ \/ /\ \E F \in FormatEdgeSets :
             /\ store' =
                  [store EXCEPT
                     !.ACCEPTS_INPUT   = { <<x[2], x[3]>> : x \in { y \in F : y[1] = "in" } },
                     !.PRODUCES_OUTPUT = { <<x[2], x[3]>> : x \in { y \in F : y[1] = "out" } }]
             /\ Relations(store') <= MaxBuildRels
        /\ stage' = "load_workflows"
        /\ UNCHANGED events
     \/ /\ store' = store
        /\ BuildRaises
  /\ UNCHANGED << univ_graph, hier, nx_graph, finished, retrieval, summarization >>

\* the files of workflows build_full_graph may find
WorkflowFiles ==
  UNION { [S -> EmbDims] : S \in SUBSET { Workflow(i) : i \in StepWorkflowIds } }

\* load_workflows up to its first write: both files are read, an embedding
\* is asked for every workflow, and the Workflow rows are written
build_load_workflows ==
  /\ stage = "load_workflows"
  /\ \/ /\ \E f \in WorkflowFiles :
             /\ store' \in Loaded(store, "Workflow", f)
             /\ Relations(store') <= MaxBuildRels
        /\ stage' = "load_steps"
        /\ UNCHANGED events
     \/ /\ store' = store
        /\ BuildRaises
  /\ UNCHANGED << univ_graph, hier, nx_graph, finished, retrieval, summarization >>

\* the stores the step query may leave: a step is linked to its workflow and
\* to its tool when the store has them
WithSteps(st) ==
  { [st EXCEPT !.steps = b] :
      b \in { x \in StepBags :
                \A p \in BagToSet(x) : Workflow(p[1]) \in DOMAIN st.emb } }

\* the rest of load_workflows: the step query and the NEXT_STEP query, which
\* writes nothing the store of the model holds; then build_full_graph
\* returns and `finally` closes the builder
build_load_steps ==
  /\ stage = "load_steps"
  /\ \/ /\ store' \in WithSteps(store)
        /\ Relations(store') <= MaxBuildRels
        /\ \/ \E close_ok \in BOOLEAN :
                /\ events' = events \o Tail(TryStage("builder", "ok", close_ok))
                /\ stage' = StageExit("ok", close_ok, "built")
           \/ BuildRaises
     \/ /\ store' = store
        /\ BuildRaises
  /\ UNCHANGED << univ_graph, hier, nx_graph, finished, retrieval, summarization >>

\* the stores LeidenDetector.run_leiden may leave
run_leiden_stores(st) ==
  UNION { IF number_of_nodes(G) = 0 THEN {st}
          ELSE { SetCommunityIds(st, LeidenUpdates(ItemsFrom(f, G.nodes, 0, Len(G.nodes)))) :
                   f \in find_partition(G) } :
          G \in { build_weighted_graph(st) } }

\* [Step 2/3]: LeidenDetector().run_leiden().  A run that raises does so in
\* one of the fetches of the projector, which the store has then received
\* with those before it, or after the graph was built (in the conversion, in
\* find_partition, in the one write of the updates, which is rolled back);
\* it has written nothing.
DetectStage ==
  /\ stage = "built"
  /\ \E outcome \in StageOutcomes : \E close_ok \in BOOLEAN :
       /\ events' = events \o TryStage("detector", outcome, close_ok)
       /\ stage' = StageExit(outcome, close_ok, "detected")
       /\ CASE outcome = "ok" ->
                 \E G \in { build_weighted_graph(store) } :
                   /\ store' \in run_leiden_stores(store)
                   /\ nx_graph' = G
                   /\ calls' = projector_queries(store)
            [] outcome = "raises" ->
                 \E G \in { build_weighted_graph(store) } :
                   /\ store' = store
                   /\ \/ \E k \in DOMAIN projector_queries(store) :
                            /\ calls' = SubSeq(projector_queries(store), 1, k)
                            /\ nx_graph' = nx_graph
                      \/ /\ number_of_nodes(G) > 0
                         /\ calls' = projector_queries(store)
                         /\ nx_graph' = G
            [] outcome = "ctor_raises" -> UNCHANGED << store, nx_graph, calls >>
  /\ UNCHANGED << univ_graph, hier, finished, request, response, summarization >>

\* build_pipeline was entered: its first event is the builder's construction
InPipeline == events # <<>> /\ events[1].obj = "builder"

\* the two halves of run_summarization; stage names the one that comes next
SummarizeSteps == { "summarize_communities", "summarize_subcommunities" }

\* [Step 3/3]: summarizer = CommunitySummarizer(), which raises ValueError
\* when GEMINI_API_KEY is not set
SummarizeStage ==
  /\ stage = "detected"
  /\ \E outcome \in {"ctor_raises", "ok"} :
       /\ events' = events \o << Head(TryStage("summarizer", outcome, TRUE)) >>
       /\ stage' = IF outcome = "ok" THEN "summarize_communities"
                   ELSE StageExit(outcome, TRUE, "completed")
  /\ UNCHANGED << store, univ_graph, hier, nx_graph, finished, retrieval, summarization >>

\* the summarizer run on its own: summarizer = CommunitySummarizer(), before
\* the `try`
run_summarization_main ==
  /\ stage = "idle"
  /\ events = <<>>
  /\ \E outcome \in {"ctor_raises", "ok"} :
       /\ events' = << Head(TryStage("summarizer", outcome, TRUE)) >>
       /\ stage' = IF outcome = "ok" THEN "summarize_communities" ELSE "raised"
  /\ UNCHANGED << store, univ_graph, hier, nx_graph, finished, retrieval, summarization >>

\* run_summarization raises: `finally: summarizer.close()`; then the except
\* clause of build_pipeline returns, while the summarizer's own entry point
\* lets the exception go
SummarizerRaises ==
  \E close_ok \in BOOLEAN :
    /\ events' = events \o Tail(TryStage("summarizer", "raises", close_ok))
    /\ stage' = IF InPipeline THEN StageExit("raises", close_ok, "completed")
                ELSE "raised"

\* run_summarization returns: `finally: summarizer.close()`, and in
\* build_pipeline the banner
SummarizerReturns ==
  \E close_ok \in BOOLEAN :
    /\ stage' = IF InPipeline THEN StageExit("ok", close_ok, "completed")
                ELSE IF close_ok THEN "summarized" ELSE "raised"
    /\ events' = events \o Tail(TryStage("summarizer", "ok", close_ok))
                    \o (IF stage' = "completed" THEN << Banner >> ELSE <<>>)

\* the first half of run_summarization: fetch_communities, the loop over its
\* rows and, `if comm_updates:`, the write of the list in one query.  The
\* fetch or the write raises, or the half is done.
summarize_communities ==
  /\ stage = "summarize_communities"
  /\ \/ /\ SummarizerRaises
        /\ UNCHANGED << store, summarization >>
     \/ \E p \in SummaryPass(fetch_communities(store), "Community") :
          LET lists == [NoSummarization EXCEPT !.communities = p.recs,
                                               !.comm_updates = p.updates,
                                               !.answers = p.answers]
          IN  \/ /\ store' = SetSummaries(store, p.updates, "Community")
                 /\ summarization' =
                      [lists EXCEPT !.written =
                                      IF p.updates # <<>> THEN {"Community"} ELSE {}]
                 /\ stage' = "summarize_subcommunities"
                 /\ UNCHANGED events
              \/ /\ p.updates # <<>>
                 /\ store' = store
                 /\ summarization' = lists
                 /\ SummarizerRaises
  /\ UNCHANGED << univ_graph, hier, nx_graph, finished, retrieval >>

\* the second half: fetch_subcommunities, the loop and, `if sub_updates:`,
\* the write; then run_summarization returns
summarize_subcommunities ==
  /\ stage = "summarize_subcommunities"
  /\ \/ /\ SummarizerRaises
        /\ UNCHANGED << store, summarization >>
     \/ \E q \in SummaryPass(fetch_subcommunities(store), "SubCommunity") :
          LET lists == [summarization EXCEPT !.subcommunities = q.recs,
                                             !.sub_updates = q.updates,
                                             !.answers = Joined(@, q.answers)]
          IN  \/ /\ store' = SetSummaries(store, q.updates, "SubCommunity")
                 /\ summarization' =
                      [lists EXCEPT !.written =
                                      IF q.updates # <<>> THEN @ \cup {"SubCommunity"}
                                      ELSE @]
                 /\ SummarizerReturns
              \/ /\ q.updates # <<>>
                 /\ store' = store
                 /\ summarization' = lists
                 /\ SummarizerRaises
  /\ UNCHANGED << univ_graph, hier, nx_graph, finished, retrieval >>

\* a GlobalSearch.search that follows build_pipeline or the summarizer
PipeSearch ==
  /\ stage \in {"completed", "summarized"}
  /\ GlobalSearch_search

PipeNext ==
  \/ BuildStage
  \/ clear_database
  \/ build_load_tools
  \/ build_load_formats
  \/ build_load_workflows
  \/ build_load_steps
  \/ DetectStage
  \/ SummarizeStage
  \/ run_summarization_main
  \/ summarize_communities
  \/ summarize_subcommunities
  \/ PipeSearch

PipeSpec == PipeInit /\ [][PipeNext]_vars

(***************************************************************************)
(* Vocabulary of the properties.                                           *)
(***************************************************************************)
\* the last run completed and the data it read is still the stored data
Completed == pc = "done" /\ loads = 0

\* the Level-1 community ids of the current run
CurrentCommunityIds == { comm_partition[i][2] : i \in DOMAIN comm_partition }

\* the Level-1 cluster the current run placed a node key in
Level1Index(key) ==
  comm_partition[CHOOSE i \in DOMAIN comm_partition : comm_partition[i][1] = key][2]

\* the node key is an endpoint of an edge of the universal graph
HasEdge(key) == \E e \in univ_graph.edges : key \in e

\* the type tag of a sub-community id: the character after its first '_'
SubIdTag(sid) == sid[IndexOf(sid, "_") + 1]

\* every node and edge of the bag is there once
AllOnce(bag) == \A x \in BagToSet(bag) : CopiesIn(x, bag) = 1

\* the previous run completed, nothing was loaded since, and the
\* partition calls of this run returned what they returned in that run
SameRunAgain ==
  /\ Completed
  /\ last.valid
  /\ ~last.dirty
  /\ last.l1 = comm_partition
  /\ last.l2 = l2_log

(***************************************************************************)
(* C1.  After a completed run every communityId in the store is a Level-1  *)
(* community id of that run, and no membership property and no Community   *)
(* or SubCommunity node from before the run is left in the store.          *)
(***************************************************************************)
C1_NoResidue ==
  pc = "done" =>
    /\ \A n \in DOMAIN store.communityId :
         store.communityId[n] \in CurrentCommunityIds
    /\ prior = NoPrior

\* a second run completed with assignments, after a run that had left
\* assignments and a load of the catalog
C1_Witness ==
  /\ pc = "done"
  /\ runs >= 2
  /\ last.had
  /\ last.dirty
  /\ store.communityId # NoProps

(***************************************************************************)
(* C2.  After a completed run every Tool and Workflow with a 384-length    *)
(* embedding and at least one edge in the universal graph carries a        *)
(* communityId equal to the index of its Level-1 cluster.                  *)
(***************************************************************************)
C2_EveryMemberAssigned ==
  Completed =>
    \A n \in ValidEntities(store) :
      HasEdge(KeyOf(n)) =>
        /\ n \in DOMAIN store.communityId
        /\ store.communityId[n] = Level1Index(KeyOf(n))

(***************************************************************************)
(* C3.  In one run no two update rows name the same node (so also no two   *)
(* communities produce a row for the same node), and a Tool row carries    *)
(* the tag T, a Workflow row the tag W.                                    *)
(***************************************************************************)
C3_OneRowPerNode ==
  /\ \A i, j \in DOMAIN all_updates :
       i # j => <<all_updates[i].type, all_updates[i].id>>
                  # <<all_updates[j].type, all_updates[j].id>>
  /\ \A i \in DOMAIN all_updates :
       SubIdTag(all_updates[i].sub_id)
         = (IF all_updates[i].type = "Tool" THEN "T" ELSE "W")

(***************************************************************************)
(* C4.  Every sub-community id is parent id, '_', type tag, '_', local     *)
(* index; that mapping is injective; every SubCommunity node of the store  *)
(* has exactly one BELONGS_TO edge, to the Community its id is prefixed by.*)
(***************************************************************************)
\* largest parent id and local index of the injectivity check
MaxIndex == 3

SubIdInputs == (0 .. MaxIndex) \X {"T", "W"} \X (0 .. MaxIndex)

C4_SubCommunityIds ==
  /\ \A i \in DOMAIN all_updates :
       LET r == all_updates[i]
       IN  /\ SubIdPrefix(r.sub_id) = IntStr(r.comm_id)
           /\ \E k \in 0 .. Len(all_updates) :
                r.sub_id = SubId(r.comm_id, SubIdTag(r.sub_id), k)
  /\ Cardinality({ SubId(x[1], x[2], x[3]) : x \in SubIdInputs })
       = Cardinality(SubIdInputs)
  /\ \A sid \in BagToSet(store.SubCommunity) :
       /\ \E c \in BagToSet(store.Community) :
            /\ IntStr(c) = SubIdPrefix(sid)
            /\ { b \in BagToSet(store.BELONGS_TO) : b[1] = sid } = { <<sid, c>> }
            /\ CopiesIn(<<sid, c>>, store.BELONGS_TO) = 1

\* two SubCommunity nodes of different parents with the same local index
C4_Witness ==
  /\ pc = "done"
  /\ \E s1, s2 \in BagToSet(store.SubCommunity) :
       /\ SubIdPrefix(s1) # SubIdPrefix(s2)
       /\ s1[Len(s1)] = s2[Len(s2)]

(***************************************************************************)
(* C5.  The Level-2 tool step completes without error for every community *)
(* with a tool member, and every tool row of a community names a tool      *)
(* member of that community.                                               *)
(***************************************************************************)
C5_ToolStepCompletes ==
  /\ err # "TypeError"
  /\ \A i \in DOMAIN all_updates :
       all_updates[i].type = "Tool" =>
         \E k \in DOMAIN communities :
           /\ communities[k].comm_id = all_updates[i].comm_id
           /\ all_updates[i].id \in Range(communities[k].tools)

(***************************************************************************)
(* C6.  A community whose workflow members have no edge among themselves   *)
(* gets no workflow sub-community, and those members end the run with a    *)
(* communityId and without a subCommunityId.                               *)
(***************************************************************************)
C6_NoEdgeNoSubCommunity ==
  Completed =>
    \A k \in DOMAIN communities :
      LET m == communities[k]
      IN  ( /\ m.workflows # <<>>
            /\ subgraph(univ_graph, WorkflowKeys(m.workflows)).edges = {} )
          =>
          /\ \A i \in DOMAIN all_updates :
               ~ ( /\ all_updates[i].type = "Workflow"
                   /\ all_updates[i].comm_id = m.comm_id )
          /\ \A w \in Range(m.workflows) :
               /\ Workflow(w) \in DOMAIN store.communityId
               /\ Workflow(w) \notin DOMAIN store.subCommunityId

StageSteps ==
  { <<"idle", "cleanup_nodes">>, <<"done", "cleanup_nodes">>,
    <<"raised", "cleanup_nodes">>, <<"closed", "cleanup_nodes">>,
    <<"done", "closed">>, <<"raised", "closed">>,
    <<"cleanup_nodes", "cleanup_props">>, <<"cleanup_props", "build_l1">>,
    <<"cleanup_nodes", "raised">>, <<"cleanup_props", "raised">>,
    <<"build_l1", "raised">>,
    <<"build_l1", "partition_l1">>, <<"partition_l1", "grouping">>,
    <<"grouping", "level2_tools">>,
    <<"level2_tools", "level2_workflows">>, <<"level2_workflows", "level2_tools">>,
    <<"level2_tools", "raised">>,
    <<"level2_tools", "persist_tools">>, <<"level2_tools", "persist_workflows">>,
    <<"level2_tools", "done">>,
    <<"persist_tools", "persist_workflows">>, <<"persist_tools", "done">>,
    <<"persist_tools", "raised">>,
    <<"persist_workflows", "done">>, <<"persist_workflows", "raised">> }

\* the node of item i of the partition is a member of its community's entry
Grouped(i) ==
  LET p == ParseGrouping(comm_partition[i][1])
  IN  \E k \in DOMAIN communities :
        /\ communities[k].comm_id = comm_partition[i][2]
        /\ \/ p.type_prefix = "Tool" /\ p.real_id \in Range(communities[k].tools)
           \/ p.type_prefix = "Workflow"
                /\ p.real_id \in Range(communities[k].workflows)

C8_StageOrder ==
  /\ [][pc' # pc => <<pc, pc'>> \in StageSteps]_vars
  /\ [](pc \in {"cleanup_nodes", "cleanup_props"}
          => (univ_graph = EmptyGraph /\ comm_partition = <<>>))
  /\ [](pc = "build_l1" => CommunityPart(store) = NoCommunityPart)
  /\ [](pc \in {"level2_tools", "level2_workflows"}
          => \A i \in DOMAIN comm_partition : Grouped(i))

\* the Level-2 pass of a second community, after a first one was finished
C8_Witness ==
  /\ pc = "level2_workflows"
  /\ ci >= 1
  /\ Len(communities) >= 2
  /\ all_updates # <<>>

(***************************************************************************)
(* C9.  A store write that fails during persistence ends the run, or the   *)
(* call of execute_batch, with the error; what failed sends no write       *)
(* after it; the batches written before the failing one stay in the store; *)
(* and when the next run completes, nothing from before it is left: the    *)
(* store holds the properties, community nodes and edges of the rows of    *)
(* that run and no other.                                                  *)
(***************************************************************************)
\* a write of the persistence stage failed before the run now in progress
FailedBefore ==
  \/ last.err = "StoreError" /\ last.persisting
  \/ request.mode = "execute_batch" /\ response = [kind |-> "raised"]

\* the store st with nothing of a detector in it
Unassigned(st) ==
  [st EXCEPT !.communityId = NoProps, !.subCommunityId = NoProps,
             !.Community = EmptyBag, !.SubCommunity = EmptyBag,
             !.IN_COMMUNITY = EmptyBag, !.IN_SUBCOMMUNITY = EmptyBag,
             !.BELONGS_TO = EmptyBag]

C9_FailedRunLeavesNothing ==
  /\ [][(pc \in {"persist_tools", "persist_workflows"} /\ err' = "StoreError")
          => (pc' = "raised" /\ applied' = applied)]_vars
  /\ [][pc = "raised" => (store' = store /\ applied' = applied)]_vars
  /\ [][(request.mode = "execute_batch" /\ response' = [kind |-> "raised"])
          => (calls' = calls /\ request' = request)]_vars
  /\ []((request.mode = "execute_batch" /\ request.label = "Workflow"
           /\ response = [kind |-> "raised"] /\ runs = 0)
          => store = ApplyBatch(Unassigned(store),
                                SubSeq(request.data, 1, request.i), "Workflow"))
  /\ []((pc = "done" /\ FailedBefore)
          => /\ prior = NoPrior
             /\ \A n \in DOMAIN store.communityId :
                  store.communityId[n] \in CurrentCommunityIds
             /\ store = ApplyBatch(ApplyBatch(Unassigned(store), tools_batch, "Tool"),
                                   wf_batch, "Workflow"))

\* a run completed with assignments after a call of execute_batch whose
\* second write failed: its first row was in the store when the run began,
\* in a community the run did not make, and is there no more
C9_Witness ==
  /\ pc = "done"
  /\ request.mode = "execute_batch"
  /\ request.label = "Workflow"
  /\ response = [kind |-> "raised"]
  /\ calls # <<>>
  /\ request.data[1].comm_id \notin CurrentCommunityIds
  /\ store.communityId # NoProps
  /\ request.data[1].comm_id \notin BagToSet(store.Community)

\* a run completed with assignments after a run whose write of the workflow
\* rows had failed
C9_AfterFailedRun ==
  /\ pc = "done"
  /\ last.err = "StoreError"
  /\ last.persisting
  /\ store.communityId # NoProps

(***************************************************************************)
(* C10.  A second run on unchanged data with the same partitions leaves    *)
(* the properties, community nodes and edges the first run left, each node *)
(* and edge once; sending the batches again changes nothing.               *)
(***************************************************************************)
C10_Idempotent ==
  SameRunAgain =>
    /\ CommunityPart(store) = last.part
    /\ AllOnce(store.Community) /\ AllOnce(store.SubCommunity)
    /\ AllOnce(store.IN_COMMUNITY) /\ AllOnce(store.IN_SUBCOMMUNITY)
    /\ AllOnce(store.BELONGS_TO)
    /\ ApplyBatch(ApplyBatch(store, tools_batch, "Tool"), wf_batch, "Workflow")
         = store

\* the second of two equal runs, with two rows in one sub-community
C10_Witness ==
  /\ SameRunAgain
  /\ \E i, j \in DOMAIN wf_batch : i # j /\ wf_batch[i].sub_id = wf_batch[j].sub_id
  /\ store.BELONGS_TO # EmptyBag

(***************************************************************************)
(* C11.  A run on a store that has no community and no embedding of the    *)
(* expected length raises nothing of its own and ends with nothing done:   *)
(* the cleanup finds nothing to delete, the universal graph has no node,   *)
(* the Level-1 partition is empty, no community is formed, no row is       *)
(* collected and no write is sent; the partition of a graph with no node   *)
(* is empty.  Such a run ends early only when the store itself fails to    *)
(* answer a cleanup query or a fetch.                                      *)
(***************************************************************************)
\* the store the run started on had no community, and none of its
\* embeddings has the expected length
EmptyStoreRun ==
  /\ runs >= 1
  /\ loads = 0
  /\ ~last.had
  /\ \A n \in DOMAIN store.emb : store.emb[n] # ExpectedDim

C11_EmptyStoreRun ==
  /\ run_leiden_on_graph(EmptyGraph) = { <<>> }
  /\ EmptyStoreRun =>
       /\ err \in {"", "StoreError"}
       /\ pc = "raised" => err = "StoreError"
       /\ CommunityPart(store) = NoCommunityPart
       /\ univ_graph = EmptyGraph
       /\ comm_partition = <<>>
       /\ communities = <<>>
       /\ all_updates = <<>>
       /\ pc \notin {"persist_tools", "persist_workflows"}
       /\ applied = 0

\* such a run has completed, on a store that holds nodes with embeddings of
\* another length
C11_Witness ==
  /\ EmptyStoreRun
  /\ pc = "done"
  /\ Cardinality(DOMAIN store.emb) >= 2

(***************************************************************************)
(* Vocabulary of the projector properties.                                 *)
(***************************************************************************)
WeightedBuilt == "run_leiden" \in finished

UniversalBuilt == "build_universal_graph" \in finished

\* the fetched nodes whose embedding has length 384
Length384(fetched) == { e \in Range(fetched) : store.emb[e] = ExpectedDim }

\* the ids of the tools of the store with an embedding of length 384
Tools384 == { IdOf(e) : e \in Length384(fetch_tool_embeddings(store)) }

\* the similarity of the tools of a pair
PairCosine(p) ==
  LET u == CHOOSE x \in p : TRUE
      v == CHOOSE x \in p : x # u
  IN  Cosine(store, Tool(u), Tool(v))

\* the count of the row (u, v) of rows, 0 when there is no such row
RowCount(rows, u, v) ==
  SumSeq([i \in DOMAIN rows |->
            IF rows[i].source = u /\ rows[i].target = v THEN rows[i].weight ELSE 0])

\* the counts of the rows of a pair, in either direction
PairCount(rows, p) ==
  LET u == CHOOSE x \in p : TRUE
      v == CHOOSE x \in p : x # u
  IN  RowCount(rows, u, v) + RowCount(rows, v, u)

CoocRows == fetch_workflow_cooccurrences(store)

\* the number of formats one tool of the pair produces and the other accepts,
\* both directions counted
SharedBothWays(p) ==
  Cardinality({ x \in p \X FormatNames :
                  /\ <<x[1], x[2]>> \in store.PRODUCES_OUTPUT
                  /\ \E v \in p \ {x[1]} : <<v, x[2]>> \in store.ACCEPTS_INPUT })

(***************************************************************************)
(* C12.  Both projectors enter into the similarity computation exactly the *)
(* fetched nodes whose embedding has length 384: the list of valid tools   *)
(* (valid keys) is that set, the tool graph starts from these nodes and    *)
(* has semantic edges between them only, and the universal graph has       *)
(* these nodes and no other.                                               *)
(***************************************************************************)
C12_ExactlyLength384 ==
  /\ Range(valid_tool_ids(store)) = Length384(fetch_tool_embeddings(store))
  /\ Range(valid_keys(store)) = Length384(fetch_all_embeddings(store))
  /\ WeightedBuilt =>
       /\ Tools384 \subseteq Range(nx_graph.nodes)
       /\ \A e \in nx_graph.edges :
            nx_graph.type[e] = "semantic" => e \subseteq Tools384
  /\ UniversalBuilt =>
       Range(univ_graph.nodes)
         = { KeyOf(e) : e \in Length384(fetch_all_embeddings(store)) }

\* both graphs were built on a store where one tool has an embedding of
\* length 128 and two tools with embeddings of length 384 are similar
C12_Witness ==
  /\ WeightedBuilt /\ UniversalBuilt
  /\ \E n \in DOMAIN store.emb : store.emb[n] = 128
  /\ \E e \in nx_graph.edges : nx_graph.type[e] = "semantic"
  /\ univ_graph.edges # {}

(***************************************************************************)
(* C13.  A tool whose embedding has another length than 384 is no node of  *)
(* the graph of build_weighted_graph and no node of the universal graph,   *)
(* and no detector run gives it a communityId or subCommunityId.           *)
(***************************************************************************)
C13_WrongLengthExcluded ==
  \A n \in DOMAIN store.emb :
    (n[1] = "Tool" /\ store.emb[n] # ExpectedDim) =>
      /\ WeightedBuilt => IdOf(n) \notin Range(nx_graph.nodes)
      /\ UniversalBuilt => KeyOf(n) \notin Range(univ_graph.nodes)
      /\ n \notin DOMAIN store.communityId
      /\ n \notin DOMAIN store.subCommunityId

(***************************************************************************)
(* C14.  In the graph of build_weighted_graph two tools with embeddings of *)
(* length 384 are joined by a semantic edge exactly when their similarity  *)
(* is above 0.7, and with no co-occurrence and no I/O row for the pair the *)
(* weight of the edge is the similarity; in the universal graph two keys   *)
(* are joined exactly when their similarity is above 0.7, with the         *)
(* similarity as weight.                                                   *)
(***************************************************************************)
C14_SemanticEdgeRule ==
  /\ WeightedBuilt =>
       \A p \in Pairs(Tools384) :
         /\ (p \in nx_graph.edges /\ nx_graph.type[p] = "semantic")
              <=> PairCosine(p) > SimilarityThreshold
         /\ (PairCount(CoocRows, p) = 0 /\ SharedBothWays(p) = 0) =>
              /\ p \in nx_graph.edges <=> PairCosine(p) > SimilarityThreshold
              /\ p \in nx_graph.edges => nx_graph.weight[p] = PairCosine(p)
  /\ UniversalBuilt =>
       \A q \in Pairs(Length384(fetch_all_embeddings(store))) :
         LET k == { KeyOf(e) : e \in q }
         IN  /\ k \in univ_graph.edges <=> store.cos[q] > SimilarityThreshold
             /\ k \in univ_graph.edges => univ_graph.weight[k] = store.cos[q]

\* both graphs were built on a store with a pair at exactly 0.7 and a pair
\* above it, the latter with no other row
C14_Witness ==
  /\ WeightedBuilt /\ UniversalBuilt
  /\ \E p, q \in Pairs(Tools384) :
       /\ PairCosine(p) = SimilarityThreshold /\ p \notin nx_graph.edges
       /\ PairCosine(q) > SimilarityThreshold
       /\ q \in nx_graph.edges /\ nx_graph.weight[q] = PairCosine(q)
       /\ { MakeKey("Tool", x) : x \in q } \in univ_graph.edges

(***************************************************************************)
(* C15.  For two tools with embeddings of length 384, a co-occurrence row  *)
(* of count n and no I/O row: when the pair has a semantic edge of         *)
(* similarity s the edge keeps the type "semantic" and weighs s + n x 1.0; *)
(* when it has none the edge has the type "workflow" and weighs n x 1.0.   *)
(***************************************************************************)
C15_CooccurrenceAdds ==
  WeightedBuilt =>
    \A p \in Pairs(Tools384) :
      LET n == PairCount(CoocRows, p)
      IN  (n > 0 /\ SharedBothWays(p) = 0) =>
            /\ p \in nx_graph.edges
            /\ IF PairCosine(p) > SimilarityThreshold
               THEN /\ nx_graph.weight[p] = PairCosine(p) + n * 100
                    /\ nx_graph.type[p] = "semantic"
               ELSE /\ nx_graph.weight[p] = n * 100
                    /\ nx_graph.type[p] = "workflow"

\* the graph was built on a store where a pair above 0.7 has a
\* co-occurrence row of count 2 and no I/O row
C15_Witness ==
  /\ WeightedBuilt
  /\ \E p \in Pairs(Tools384) :
       /\ PairCount(CoocRows, p) = 2
       /\ SharedBothWays(p) = 0
       /\ PairCosine(p) > SimilarityThreshold
       /\ nx_graph.weight[p] = PairCosine(p) + 200

\* the graph was built on a store where a pair not above 0.7 has a
\* co-occurrence row and no I/O row
C15_WorkflowOnly ==
  /\ WeightedBuilt
  /\ \E p \in Pairs(Tools384) :
       /\ PairCount(CoocRows, p) > 0
       /\ SharedBothWays(p) = 0
       /\ PairCosine(p) = SimilarityThreshold
       /\ nx_graph.type[p] = "workflow"

(***************************************************************************)
(* C16.  For two tools with embeddings of length 384 the I/O rows add 0.5  *)
(* for every format one of them produces and the other accepts, on top of  *)
(* the weight the two earlier passes left: the pair is an edge exactly     *)
(* when one of the three sources applies, and the weight of the edge is    *)
(* the similarity (when above 0.7) plus 1.0 for every counted              *)
(* co-occurrence plus 0.5 for every shared format.                         *)
(***************************************************************************)
C16_WeightIsSumOfSources ==
  WeightedBuilt =>
    \A p \in Pairs(Tools384) :
      LET s == IF PairCosine(p) > SimilarityThreshold THEN PairCosine(p) ELSE 0
          n == PairCount(CoocRows, p)
          k == SharedBothWays(p)
      IN  /\ p \in nx_graph.edges <=> (s > 0 \/ n > 0 \/ k > 0)
          /\ p \in nx_graph.edges => nx_graph.weight[p] = s + n * 100 + k * 50

\* the graph was built on a store where all three sources apply to one pair
C16_Witness ==
  /\ WeightedBuilt
  /\ \E p \in Pairs(Tools384) :
       /\ PairCosine(p) > SimilarityThreshold
       /\ PairCount(CoocRows, p) > 0
       /\ SharedBothWays(p) > 0
       /\ nx_graph.weight[p] > PairCosine(p) + 100

(***************************************************************************)
(* C17.  The count of the co-occurrence row of two tools is the number of  *)
(* workflows that have a step using the one and a step using the other,    *)
(* and no two rows name the same pair of tools.                            *)
(***************************************************************************)
\* the workflows with a step using u and a step using v
WorkflowsWithBoth(u, v) ==
  { w \in StepWorkflowIds : BagIn(<<w, u>>, store.steps) /\ BagIn(<<w, v>>, store.steps) }

C17_CountsDistinctWorkflows ==
  /\ \A p \in Pairs(ProjectorToolIds) :
       PairCount(CoocRows, p)
         = Cardinality(WorkflowsWithBoth(CHOOSE x \in p : TRUE,
                                         CHOOSE x \in p : x # (CHOOSE y \in p : TRUE)))
  /\ \A i, j \in DOMAIN CoocRows :
       {CoocRows[i].source, CoocRows[i].target}
         = {CoocRows[j].source, CoocRows[j].target} => i = j

(***************************************************************************)
(* C18.  A global search on a store with no Community node returns the     *)
(* message that no communities were found, raises nothing, and does not    *)
(* call the generative model.                                              *)
(***************************************************************************)
C18_NoCommunitiesMessage ==
  (request.mode = "global" /\ BagToSet(store.Community) = {}) =>
    /\ response = [kind |-> "string", text |-> NoCommunitiesText]
    /\ "model" \notin Range(calls)

\* a global search was made on a store with indexed tools and no community
C18_Witness ==
  /\ request.mode = "global"
  /\ BagToSet(store.Community) = {}
  /\ store.rank # <<>>
  /\ calls = << "store" >>

(***************************************************************************)
(* C19.  A local search returns a list and raises nothing: the empty list, *)
(* with no store query, when the query embedding came back empty; the      *)
(* empty list when the vector search has no match; otherwise one (tool,    *)
(* context) pair for each of the first top_k tools of the index, in the    *)
(* order of the index, where the context of a tool holds the formats it    *)
(* accepts, the formats it produces and the names of three of the          *)
(* workflows that use it in a step, or of all when they are fewer.         *)
(***************************************************************************)
\* the workflows of the store that have a name and a step that uses tool id
NamedUsers(id) ==
  { p[1] : p \in { q \in BagToSet(store.steps) :
                     /\ q[2] = id
                     /\ Workflow(q[1]) \in Range(store.order) \ store.unnamed } }

\* row is the pair of the tool id with its context
PairOf(row, id) ==
  /\ DOMAIN row = {"tool", "context"}
  /\ row.tool = id
  /\ DOMAIN row.context = {"inputs", "outputs", "workflows"}
  /\ row.context.inputs
       = { f \in Range(FormatOrder) : <<id, f>> \in store.ACCEPTS_INPUT }
  /\ row.context.outputs
       = { f \in Range(FormatOrder) : <<id, f>> \in store.PRODUCES_OUTPUT }
  /\ Len(row.context.workflows) = Min(3, Cardinality(NamedUsers(id)))
  /\ Range(row.context.workflows) \subseteq NamedUsers(id)
  /\ Cardinality(Range(row.context.workflows)) = Len(row.context.workflows)

C19_LocalSearchRows ==
  request.mode = "local" =>
    /\ response.kind = "list"
    /\ request.embedding = "empty" =>
         /\ response.rows = <<>>
         /\ "store" \notin Range(calls)
    /\ request.embedding = "vector" =>
         /\ Len(response.rows) = Min(request.top_k, Len(store.rank))
         /\ \A i \in DOMAIN response.rows :
              PairOf(response.rows[i], IdOf(store.rank[i]))
         /\ store.rank = <<>> => response.rows = <<>>

\* a local search returned two pairs; four named workflows use the first
\* tool, and its context lists three of them, the first of the store not
\* among them
C19_Witness ==
  /\ request.mode = "local"
  /\ request.embedding = "vector"
  /\ Len(response.rows) = 2
  /\ Cardinality(NamedUsers(response.rows[1].tool)) = 4
  /\ Len(response.rows[1].context.workflows) = 3
  /\ \E n \in Range(store.order) :
       /\ n[1] = "Workflow"
       /\ \A m \in Range(store.order) :
            m[1] = "Workflow" => IndexOf(store.order, n) <= IndexOf(store.order, m)
       /\ IdOf(n) \in NamedUsers(response.rows[1].tool)
       /\ IdOf(n) \notin Range(response.rows[1].context.workflows)

\* a local search was made whose embedding call returned nothing, on a store
\* with two indexed tools
C19_EmptyEmbedding ==
  /\ request.mode = "local"
  /\ request.embedding = "empty"
  /\ Len(store.rank) = 2
  /\ response.rows = <<>>

\* a local search on a store whose index is empty returned the empty list
C19_NoMatch ==
  /\ request.mode = "local"
  /\ request.embedding = "vector"
  /\ store.rank = <<>>
  /\ response.rows = <<>>

(***************************************************************************)
(* C20.  A hybrid search with an input_format filter F returns only tools  *)
(* that have an ACCEPTS_INPUT edge to the format named F.                  *)
(***************************************************************************)
C20_OnlyToolsAcceptingFormat ==
  (request.mode = "hybrid" /\ request.input_format # <<>> /\ response.kind = "list") =>
    \A i \in DOMAIN response.rows :
      <<response.rows[i].name, request.input_format>> \in store.ACCEPTS_INPUT

(***************************************************************************)
(* C21.  Whatever the mode of run_query and whichever collaborator fails   *)
(* during the query (the generative model raising, generate_embedding      *)
(* returning the empty list, the API key missing), run_query ends with a   *)
(* printed string or list and no exception leaves it.                      *)
(***************************************************************************)
C21_NoExceptionFromRunQuery ==
  request.mode = "run_query" => response.kind = "printed"

(***************************************************************************)
(* C22.  generate_embedding makes at most 3 HTTP attempts whatever the     *)
(* service answers, and has returned once the third was made; it never     *)
(* raises; it returns the empty list when every attempt failed (503,       *)
(* another error status, an exception); and it returns the empty list      *)
(* without any attempt when the text is empty or the service is not        *)
(* configured.                                                             *)
(***************************************************************************)
FailedPost == {"503", "other_status", "exception"}

C22_EmbeddingBoundedRetry ==
  request.mode = "generate_embedding" =>
    /\ Len(calls) <= 3
    /\ Len(calls) = 3 => response # NoResponse
    /\ response.kind \in {"none", "list"}
    /\ (response # NoResponse /\ \A i \in DOMAIN calls : calls[i] \in FailedPost)
         => response.value = "[]"
    /\ (~request.text \/ ~request.api_url)
         => (calls = <<>> /\ response = [kind |-> "list", value |-> "[]"])

\* three attempts were made, a 503 and two exceptions, and the call returned
C22_Witness ==
  /\ request.mode = "generate_embedding"
  /\ calls = << "503", "exception", "exception" >>
  /\ response = [kind |-> "list", value |-> "[]"]

\* the call returned without an attempt because the text was empty
C22_NoAttempt ==
  /\ request.mode = "generate_embedding"
  /\ ~request.text /\ request.api_url
  /\ response.kind = "list"

(***************************************************************************)
(* C23.  In run_summarization a model call that raises, or that answers    *)
(* without a Title: and a Summary: line, gives that one community or       *)
(* sub-community a sentinel title and summary; every fetched community and *)
(* sub-community gets a row, in the order fetched, whatever subset of the  *)
(* model calls fails; a list that was written has every row on its node,   *)
(* and a run that returned has written both lists.  The model is asked     *)
(* about the items that have a member with a name, and the others get the  *)
(* row of an empty community.                                              *)
(***************************************************************************)
SummarizerRan ==
  \E i \in DOMAIN events : events[i] = [op |-> "run", obj |-> "summarizer", ok |-> TRUE]

\* no line of the answer starts with Title: or with Summary:
NoTaggedLine(text) ==
  \A line \in Range(split(strip(text))) :
    ~startswith(line, "Title:") /\ ~startswith(line, "Summary:")

\* the members with a name that the store has for the item
NamedMembers(label, id) ==
  { e[1] : e \in { x \in BagToSet(IF label = "Community" THEN store.IN_COMMUNITY
                                  ELSE store.IN_SUBCOMMUNITY) :
                     x[2] = id /\ x[1] \notin store.unnamed } }

\* the row `row` is what the answer to the item asks for, and is in the store
\* when its list was written
RowAsAnswered(label, row) ==
  LET item == <<label, row.id>>
      answer == summarization.answers[item]
  IN  /\ item \in DOMAIN summarization.answers <=> NamedMembers(label, row.id) # {}
      /\ item \notin DOMAIN summarization.answers =>
           /\ row.title = << "Empty Community" >>
           /\ row.summary = << "No members found." >>
      /\ item \in DOMAIN summarization.answers =>
           /\ answer.raises =>
                /\ row.title = << "Error" >>
                /\ row.summary = << "Could not generate summary." >>
           /\ (~answer.raises /\ NoTaggedLine(answer.text)) =>
                /\ row.title = << "Unknown" >>
                /\ row.summary = << "No summary generated." >>
           /\ (~answer.raises /\ answer.text = AsAsked) =>
                (row.title = << "<Title>" >> /\ row.summary = << "<Summary>" >>)
      /\ label \in summarization.written =>
           /\ item \in DOMAIN store.summary
           /\ store.summary[item] = [name |-> row.title, summary |-> row.summary]

C23_FailedItemNeverAbortsBatch ==
  /\ Len(summarization.comm_updates) = Len(summarization.communities)
  /\ Len(summarization.sub_updates) = Len(summarization.subcommunities)
  /\ \A i \in DOMAIN summarization.communities :
       /\ summarization.comm_updates[i].id = summarization.communities[i].id
       /\ RowAsAnswered("Community", summarization.comm_updates[i])
  /\ \A i \in DOMAIN summarization.subcommunities :
       /\ summarization.sub_updates[i].id = summarization.subcommunities[i].id
       /\ RowAsAnswered("SubCommunity", summarization.sub_updates[i])
  /\ SummarizerRan =>
       /\ { summarization.communities[i].id : i \in DOMAIN summarization.communities }
            = GroupIds(store.Community, store.IN_COMMUNITY)
       /\ { summarization.subcommunities[i].id : i \in DOMAIN summarization.subcommunities }
            = GroupIds(store.SubCommunity, store.IN_SUBCOMMUNITY)
       /\ summarization.comm_updates # <<>> => "Community" \in summarization.written
       /\ summarization.sub_updates # <<>> => "SubCommunity" \in summarization.written

\* two communities and two sub-communities were summarized and written; the
\* model raised for one community and for one sub-community and answered
\* without the lines for the other sub-community
C23_Witness ==
  /\ SummarizerRan
  /\ summarization.written = {"Community", "SubCommunity"}
  /\ Len(summarization.comm_updates) = 2
  /\ Len(summarization.sub_updates) = 2
  /\ summarization.comm_updates[1].title = << "Error" >>
  /\ summarization.comm_updates[2].title = << "<Title>" >>
  /\ summarization.answers[<<"Community", summarization.comm_updates[2].id>>].text = AsAsked
  /\ { summarization.sub_updates[i].title : i \in 1 .. 2 }
       = { << "Error" >>, << "Unknown" >> }

\* a community whose one member has no name got the row of an empty
\* community, with no call of the model, next to a community whose call
\* raised
C23_EmptyCommunity ==
  /\ SummarizerRan
  /\ Len(summarization.comm_updates) = 2
  /\ summarization.comm_updates[1].title = << "Empty Community" >>
  /\ <<"Community", summarization.comm_updates[1].id>> \notin DOMAIN summarization.answers
  /\ summarization.comm_updates[2].title = << "Error" >>

\* the write of the sub-community rows raised after the community rows were
\* written
C23_SecondWriteRaised ==
  /\ stage = "raised"
  /\ summarization.written = {"Community"}
  /\ summarization.sub_updates # <<>>

(***************************************************************************)
(* C24.  build_pipeline runs graph build, detection and summarization in   *)
(* that order, each stage starting only after the one before it            *)
(* completed; after a stage or a constructor raised no later stage starts  *)
(* and the success banner is not printed; the banner is printed only after *)
(* all three stages completed, and is printed when build_pipeline          *)
(* completes; and every stage object that was constructed has had its      *)
(* close() called exactly once when its stage is over.                     *)
(***************************************************************************)
StageObjects == << "builder", "detector", "summarizer" >>

\* the positions of events at which op was done on obj
EventsOf(op, obj) ==
  { i \in DOMAIN events : events[i].op = op /\ events[i].obj = obj }

\* the stage of obj ran to its end before position i
CompletedBefore(obj, i) ==
  \E j \in EventsOf("run", obj) : j < i /\ events[j].ok

C24_PipelineOrder ==
  /\ stage \in BuildSteps =>
       events = << [op |-> "new", obj |-> "builder", ok |-> TRUE] >>
  /\ (InPipeline /\ stage \in SummarizeSteps) =>
       events = TryStage("builder", "ok", TRUE) \o TryStage("detector", "ok", TRUE)
                  \o << [op |-> "new", obj |-> "summarizer", ok |-> TRUE] >>
  /\ (InPipeline /\ stage \notin BuildSteps \cup SummarizeSteps) =>
         /\ \A k \in 2 .. 3 : \A i \in EventsOf("new", StageObjects[k]) :
              CompletedBefore(StageObjects[k - 1], i)
         /\ \A i \in DOMAIN events :
              (events[i].op \in {"new", "run"} /\ ~events[i].ok) =>
                \A j \in DOMAIN events :
                  j > i => events[j].op \notin {"new", "run", "print"}
         /\ \A i \in DOMAIN events :
              events[i] = Banner =>
                \A k \in 1 .. 3 : CompletedBefore(StageObjects[k], i)
         /\ stage = "completed" => events[Len(events)] = Banner
         /\ \A k \in 1 .. 3 :
              LET made == { i \in EventsOf("new", StageObjects[k]) : events[i].ok }
              IN  /\ Cardinality(made) <= 1
                  /\ Cardinality(EventsOf("close", StageObjects[k])) = Cardinality(made)
                  /\ \A i \in made : \A j \in EventsOf("close", StageObjects[k]) : i < j

\* the detection stage raised in the second fetch of the projector:
\* build_pipeline returned after closing the detector, with no summarizer
\* and no banner
C24_Witness ==
  /\ stage = "returned"
  /\ events = TryStage("builder", "ok", TRUE) \o TryStage("detector", "raises", TRUE)
  /\ calls = << "fetch_tool_embeddings", "fetch_workflow_cooccurrences" >>

\* all three stages completed and the banner was printed
C24_Completed ==
  /\ stage = "completed"
  /\ Len(events) = 10

(***************************************************************************)
(* C25.  After build_pipeline completed on a catalog in which the          *)
(* detection stage assigned at least one community id, the store holds a   *)
(* Community node with IN_COMMUNITY edges from its members, the            *)
(* summarization stage summarized at least one community, and a            *)
(* GlobalSearch.search that follows does not answer with the               *)
(* no-communities message.                                                 *)
(***************************************************************************)
C25_PipelineLeavesCommunities ==
  (stage = "completed" /\ store.communityId # NoProps) =>
    /\ \E c \in BagToSet(store.Community) :
         \E e \in BagToSet(store.IN_COMMUNITY) : e[2] = c
    /\ Len(summarization.comm_updates) >= 1
    /\ GlobalSearch(store, "text").response.text # NoCommunitiesText

(***************************************************************************)
(* C26.  The id of every update row of run_hierarchical_detection is the   *)
(* store id of the node it was made for, also when the id contains ':':    *)
(* the key "Tool:<id>" or "Workflow:<id>" is parsed back to the same id by *)
(* the grouping step and by the Level-2 workflow step, and a tool and a    *)
(* workflow with equal ids have distinct keys.                             *)
(***************************************************************************)
C26_KeyRoundTrip ==
  /\ \A e1, e2 \in DOMAIN store.emb : KeyOf(e1) = KeyOf(e2) => e1 = e2
  /\ \A i \in DOMAIN communities :
       /\ \A j \in DOMAIN communities[i].tools :
            MakeKey("Tool", communities[i].tools[j]) \in Range(univ_graph.nodes)
       /\ \A j \in DOMAIN communities[i].workflows :
            MakeKey("Workflow", communities[i].workflows[j]) \in Range(univ_graph.nodes)
  /\ \A i \in DOMAIN all_updates :
       MakeKey(all_updates[i].type, all_updates[i].id) \in Range(univ_graph.nodes)

(***************************************************************************)
(* C27.  When no fetched tool has an embedding of length 384,              *)
(* build_weighted_graph returns a graph with no node and no edge and       *)
(* sends neither the co-occurrence nor the I/O fetch, whatever rows the    *)
(* store would return; when some tool has one, both fetches are sent and   *)
(* every row is applied: its two tools are joined by an edge whose weight  *)
(* holds 1.0 for every counted co-occurrence and 0.5 for every I/O row of  *)
(* the pair, on top of the similarity of a semantic edge.                  *)
(***************************************************************************)
IoRows == fetch_io_connections(store)

\* the pairs of tools that a co-occurrence or I/O row names
RowPairs ==
  { {CoocRows[i].source, CoocRows[i].target} : i \in DOMAIN CoocRows }
    \cup { {IoRows[i].source, IoRows[i].target} : i \in DOMAIN IoRows }

C27_EarlyReturnOrAllRows ==
  WeightedBuilt =>
    IF Tools384 = {}
    THEN /\ nx_graph.nodes = <<>> /\ nx_graph.edges = {}
         /\ calls = << "fetch_tool_embeddings" >>
    ELSE /\ calls = << "fetch_tool_embeddings", "fetch_workflow_cooccurrences",
                       "fetch_io_connections" >>
         /\ \A p \in RowPairs :
              LET s == IF p \subseteq Tools384 /\ PairCosine(p) > SimilarityThreshold
                       THEN PairCosine(p) ELSE 0
              IN  /\ p \subseteq Range(nx_graph.nodes)
                  /\ p \in nx_graph.edges
                  /\ nx_graph.weight[p]
                       = s + PairCount(CoocRows, p) * 100 + PairCount(IoRows, p) * 50

\* the graph was built on a store where no tool has an embedding of length
\* 384 and the store has a co-occurrence row and an I/O row
C27_Witness ==
  /\ WeightedBuilt
  /\ Tools384 = {}
  /\ CoocRows # <<>> /\ IoRows # <<>>
  /\ nx_graph = EmptyWeightedGraph

\* the graph was built on a store with a tool of length 384, and a row that
\* names a tool of another length was applied
C27_RowsApplied ==
  /\ WeightedBuilt
  /\ Tools384 # {}
  /\ \E p \in RowPairs : ~(p \subseteq Tools384) /\ p \in nx_graph.edges

(***************************************************************************)
(* C28.  HybridSearch.search returns at most top_k rows and no tool in two *)
(* rows, with or without an input_format filter, also when a tool accepts  *)
(* several formats that satisfy the filter.                                *)
(***************************************************************************)
C28_AtMostTopKEachToolOnce ==
  (request.mode = "hybrid" /\ response.kind = "list") =>
    /\ Len(response.rows) <= request.top_k
    /\ \A i, j \in DOMAIN response.rows :
         i # j => response.rows[i].name # response.rows[j].name

(***************************************************************************)
(* C29.  execute_batch with n records and batch size b sends               *)
(* ceil(n / b) writes, in input order, each of at most b records, and      *)
(* every record in exactly one write; with n = 0 it sends none; when a     *)
(* write raises, the batches sent before it stay sent and none follows.    *)
(***************************************************************************)
RECURSIVE Flatten(_)
\* the records of a list of batches, in order
Flatten(batches) ==
  IF batches = <<>> THEN <<>> ELSE Head(batches) \o Flatten(Tail(batches))

\* ceil(n / b)
CeilDiv(n, b) == (n + b - 1) \div b

C29_BatchesCoverData ==
  request.mode = "execute_batch" =>
    LET n == Len(request.data)
        b == request.batch_size
    IN  /\ \A k \in DOMAIN calls : Len(calls[k]) >= 1 /\ Len(calls[k]) <= b
        /\ Flatten(calls) = SubSeq(request.data, 1, Min(request.i, n))
        /\ Len(calls) <= CeilDiv(n, b)
        /\ response.kind = "returned" =>
             (Len(calls) = CeilDiv(n, b) /\ Flatten(calls) = request.data)
        /\ response.kind = "raised" => Len(calls) < CeilDiv(n, b)
        /\ n = 0 => (calls = <<>> /\ response.kind = "returned")

\* five records were sent in batches of two: three writes, the last of one
C29_Witness ==
  /\ request.mode = "execute_batch"
  /\ response.kind = "returned"
  /\ calls = << <<1, 2>>, <<3, 4>>, <<5>> >>

\* the second of three writes raised: the first batch stays sent
C29_SecondWriteRaised ==
  /\ request.mode = "execute_batch"
  /\ response.kind = "raised"
  /\ Len(request.data) = 5
  /\ calls = << <<1, 2>> >>

(***************************************************************************)
(* C30.  get_with_retry makes at most MAX_RETRIES (5) HTTP attempts        *)
(* whatever the outcomes, and is over once the fifth was made; it returns  *)
(* the response of the first successful attempt; it returns None with no   *)
(* further attempt on a non-retriable status; and it returns None when all *)
(* five attempts were exceptions, 429s or 5xx responses.                   *)
(***************************************************************************)
Retried == {"exception", "429", "5xx"}

C30_ThirdAttemptSucceeds ==
  /\ request.mode = "get_with_retry"
  /\ calls = << "5xx", "exception", "ok" >>
  /\ response = [kind |-> "resp"]

====
